---- MODULE Spec2Model ----
(***************************************************************************)
(* Model of the Lambda Labs provisioning engine of lambda-gha:             *)
(* StartLambdaLabs.create_instances (src/src/lambda_gha/start.py) with the *)
(* availability filter, the launch loop over the candidate options, the    *)
(* per-error handlers, the attempt ledger and the final reporting.         *)
(*                                                                         *)
(* One behaviour of Spec is one call of create_instances, from the point   *)
(* where the parameter validation (start.py:373-388) has passed.  The      *)
(* backend is a script of launch responses fixed in Init, as a mocked      *)
(* backend would be: the first launch calls (one, or up to MaxFirstCalls)  *)
(* get one response, every later call another.  Every effect the engine    *)
(* has on the outside (availability query, launch call, sleep, annotation, *)
(* summary) is appended to `events` in the order the code performs it.     *)
(*                                                                         *)
(* The other operations have their own specifications over their own       *)
(* variables: SpecFilter (filter_available_options), SpecClassify          *)
(* (classify_api_error), SpecWait (wait_until_ready), SpecSummary          *)
(* (format_launch_summary), SpecSetup (execute_setup_via_ssh), SpecMapping *)
(* (set_instance_mapping of both backends), SpecValidate (the parameter    *)
(* validation of create_instances of both backends) and SpecMain (main of  *)
(* lambda_gha/__main__.py).  SpecLive is Spec with weak fairness of Next:  *)
(* create_instances is straight-line code that takes its next step.  A     *)
(* specification leaves the variables of the others at their idle values.  *)
(*                                                                         *)
(* Conventions: an instance id is a positive number and 0 stands for       *)
(* None / "" ; an optional value is <<>> (None) or <<v>> ; delays are      *)
(* whole time units (retry_delay >= 0).                                    *)
(***************************************************************************)
EXTENDS Integers, Sequences, FiniteSets, TLC

\* ------------------------------------------------------------------ bounds
MaxTokens == 2
MaxRetry == 3
MaxFirstCalls == 2

\* ------------------------------------------------------------------ inputs
InstanceTypeLists == { <<"t1">>, <<"t1", "t2">>, <<"t1", "t1">> }
RegionLists == { <<"r1">>, <<"r1", "r2">> }
RetryDelays == {1, 2}
HintValues == { <<>>, <<0>>, <<3>> }

\* ListAvailability responses: instance type -> regions with capacity (a type
\* may be absent from the response).  The answers that are errors are
\* AvailabilityErrorCodes.
AvailabilityResponses ==
    { [t \in {"t1", "t2"} |-> {"r1", "r2"}],
      [t \in {"t1", "t2"} |-> {}],
      [t \in {"t1", "t2"} |-> IF t = "t1" THEN {} ELSE {"r1"}],
      [t \in {"t1", "t2"} |-> IF t = "t1" THEN {} ELSE {"r2"}],
      [t \in {"t2"} |-> {"r1", "r2"}] }

\* HTTP status codes of a failed GET /instance-types: get_availability calls
\* _api_request without raise_classified, so raise_for_status raises
\* requests.HTTPError whatever the error body says (start.py:163-174, 185).
AvailabilityErrorCodes == {401, 429, 500, 503}

\* State of the markdown summary sink (GITHUB_STEP_SUMMARY).
SinkStates == {"unset", "writable", "unwritable"}

\* What one launch call can come back with: an instance id, or one of the
\* exceptions _launch_single_instance lets through.
\* "message" is the message text of the API error the exception was built
\* from (errors.py:110); the API may send an empty one.  RuntimeError is
\* raised on an answer without data/instance_ids (start.py:336-337) or with
\* an empty instance_ids and no word of capacity (start.py:339-345);
\* HTTPError is raise_for_status on an error answer whose body is not JSON
\* (start.py:164-174); their message is str(e).
Responses ==
    { [kind |-> "ok", retry_after |-> <<>>, message |-> ""],
      [kind |-> "CapacityError", retry_after |-> <<>>,
       message |-> "Not enough capacity"],
      [kind |-> "ConfigurationError", retry_after |-> <<>>,
       message |-> "Invalid region"],
      [kind |-> "ConfigurationError", retry_after |-> <<>>, message |-> ""],
      [kind |-> "LambdaGHAError", retry_after |-> <<>>,
       message |-> "Internal error"],
      [kind |-> "RuntimeError", retry_after |-> <<>>,
       message |-> "Failed to launch instance: Unknown error"],
      [kind |-> "RuntimeError", retry_after |-> <<>>,
       message |-> "Unexpected API response: {}"],
      [kind |-> "HTTPError", retry_after |-> <<>>, message |-> "500 Error"],
      [kind |-> "RateLimitError", retry_after |-> <<>>, message |-> ""] }
    \cup { [kind |-> "RateLimitError", retry_after |-> h,
            message |-> "Rate limited"] : h \in HintValues }

VARIABLES
    \* create_instances
    instance_types, regions, gh_runner_tokens, retry_count, retry_delay,
    check_availability, backend,
    pc, available_options, idx, option_index, retry, instance_id, successful,
    token_attempts, all_attempts, id_dict, events, result,
    \* filter_available_options
    filter_args, filter_result,
    \* classify_api_error
    error_response, classified,
    \* wait_until_ready
    wpc, ids, timeout, status_script, now, elapsed, pending, sweep, polls,
    details, last_log_time, wait_events, wait_result,
    \* format_launch_summary
    summary_args, summary_result,
    \* execute_setup_via_ssh
    setup_args, spc, attempt, copied, ssh_events, setup_result,
    \* set_instance_mapping
    mapping_args, outputs,
    \* create_instances: validation of the parameters
    validate_args, vpc, validate_events, validate_result,
    \* main
    main_args, mpc, main_i, main_events, main_result

\* The variables of create_instances.
create_vars == << instance_types, regions, gh_runner_tokens, retry_count,
                  retry_delay, check_availability, backend,
                  pc, available_options, idx, option_index, retry, instance_id,
                  successful, token_attempts, all_attempts, id_dict, events,
                  result >>

filter_vars == << filter_args, filter_result >>

classify_vars == << error_response, classified >>

wait_vars == << wpc, ids, timeout, status_script, now, elapsed, pending, sweep,
                polls, details, last_log_time, wait_events, wait_result >>

summary_vars == << summary_args, summary_result >>

setup_vars == << setup_args, spc, attempt, copied, ssh_events, setup_result >>

mapping_vars == << mapping_args, outputs >>

validate_vars == << validate_args, vpc, validate_events, validate_result >>

main_vars == << main_args, mpc, main_i, main_events, main_result >>

vars == << create_vars, filter_vars, classify_vars, wait_vars, summary_vars,
           setup_vars, mapping_vars, validate_vars, main_vars >>

\* What create_instances never assigns: its parameters, the backend's script,
\* and the variables of the other operations.
params == << instance_types, regions, gh_runner_tokens, retry_count,
             retry_delay, check_availability, backend,
             filter_vars, classify_vars, wait_vars, summary_vars, setup_vars,
             mapping_vars, validate_vars, main_vars >>

\* The idle values of each operation's variables.
FilterIdle ==
    /\ filter_args = <<>>
    /\ filter_result = <<>>

ClassifyIdle ==
    /\ error_response = <<>>
    /\ classified = <<>>

SummaryIdle ==
    /\ summary_args = <<>>
    /\ summary_result = <<>>

SetupIdle ==
    /\ setup_args = <<>>
    /\ spc = "idle"
    /\ attempt = 0
    /\ copied = 0
    /\ ssh_events = <<>>
    /\ setup_result = <<>>

MappingIdle ==
    /\ mapping_args = <<>>
    /\ outputs = <<>>

ValidateIdle ==
    /\ validate_args = <<>>
    /\ vpc = "idle"
    /\ validate_events = <<>>
    /\ validate_result = <<>>

MainIdle ==
    /\ main_args = <<>>
    /\ mpc = "idle"
    /\ main_i = 0
    /\ main_events = <<>>
    /\ main_result = <<>>

WaitIdle ==
    /\ wpc = "idle"
    /\ ids = <<>>
    /\ timeout = 0
    /\ status_script = <<>>
    /\ now = 0
    /\ elapsed = 0
    /\ pending = {}
    /\ sweep = <<>>
    /\ polls = <<>>
    /\ details = <<>>
    /\ last_log_time = <<>>
    /\ wait_events = <<>>
    /\ wait_result = <<>>

\* ----------------------------------------------------------------- helpers
Max(a, b) == IF a >= b THEN a ELSE b

\* errors.py LaunchAttempt (success=False, error="", instance_id="" by default)
LaunchAttempt(t, r, n) ==
    [instance_type |-> t, region |-> r, attempt |-> n,
     success |-> FALSE, error |-> "", instance_id |-> 0]

\* Variant of CrossProduct: the two loops are nested the other way round.
CrossProductRegionMajor(types, regs) ==
    [n \in 1..(Len(types) * Len(regs)) |->
        << types[((n - 1) % Len(types)) + 1], regs[((n - 1) \div Len(types)) + 1] >>]

\* [(t, r) for t in instance_types for r in regions]
CrossProduct(types, regs) ==
    [n \in 1..(Len(types) * Len(regs)) |->
        << types[((n - 1) \div Len(regs)) + 1], regs[((n - 1) % Len(regs)) + 1] >>]

\* availability.get(instance_type, [])
AvailableRegions(availability, t) ==
    IF t \in DOMAIN availability THEN availability[t] ELSE {}

RECURSIVE FilterRegions(_, _, _)
FilterRegions(t, regs, available_regions) ==
    IF regs = <<>> THEN <<>>
    ELSE (IF Head(regs) \in available_regions THEN << <<t, Head(regs)>> >> ELSE <<>>)
         \o FilterRegions(t, Tail(regs), available_regions)

\* Variant of filter_available_options: a type the response does not list is
\* taken to be available in every requested region.
RECURSIVE FilterKeepingAbsentTypes(_, _, _)
FilterKeepingAbsentTypes(types, regs, availability) ==
    IF types = <<>> THEN <<>>
    ELSE (IF Head(types) \notin DOMAIN availability
          THEN FilterRegions(Head(types), regs, { regs[n] : n \in DOMAIN regs })
          ELSE FilterRegions(Head(types), regs, availability[Head(types)]))
         \o FilterKeepingAbsentTypes(Tail(types), regs, availability)

RECURSIVE filter_available_options(_, _, _)
filter_available_options(types, regs, availability) ==
    IF types = <<>> THEN <<>>
    ELSE (IF AvailableRegions(availability, Head(types)) = {}
          THEN <<>>
          ELSE FilterRegions(Head(types), regs,
                             AvailableRegions(availability, Head(types))))
         \o filter_available_options(Tail(types), regs, availability)

\* The "No capacity (pre-check)" entries of the fail-fast path.
\* str(e) of the exception a launch call raised: CapacityError replaces an
\* empty message by its own text (errors.py:13-17; classify_api_error passes
\* empty type and region, errors.py:114), the other classes keep the message.
ErrorText(resp) ==
    IF resp.kind = "CapacityError" /\ resp.message = ""
    THEN "No capacity for  in "
    ELSE resp.message

PreCheckAttempts ==
    [n \in DOMAIN CrossProduct(instance_types, regions) |->
        [LaunchAttempt(CrossProduct(instance_types, regions)[n][1],
                       CrossProduct(instance_types, regions)[n][2], 0)
            EXCEPT !.error = "No capacity (pre-check)"]]

\* ------------------------------------------------------------- the backend
LaunchEvents == { n \in DOMAIN events : events[n].op = "launch" }
NumLaunches == Cardinality(LaunchEvents)

\* The response the backend gives to the next launch call.
NextResponse ==
    IF NumLaunches < backend.first_calls THEN backend.first ELSE backend.rest

\* ------------------------------------------------------------ the reporting
\* annotations.write_summary: nothing is written when the sink is unset; the
\* open() of an unwritable sink raises.
WriteSummaryRaises(sink) == sink = "unwritable"

SummaryEvents(attempts, success, first_id, sink) ==
    << [op |-> "format_launch_summary", attempts |-> attempts,
        success |-> success, instance_id |-> first_id],
       [op |-> "write_summary", summary_file |-> sink] >>

Raise(exc, attempts) ==
    [kind |-> "raise", exc |-> exc, attempts |-> attempts, value |-> <<>>]

Return(value) ==
    [kind |-> "return", exc |-> "", attempts |-> <<>>, value |-> value]

\* format_launch_summary(success=False); write_summary; emit_all_exhausted_error;
\* raise AllCapacityExhaustedError(attempts)
ExhaustedEvents(attempts, sink) ==
    SummaryEvents(attempts, FALSE, 0, sink)
    \o (IF WriteSummaryRaises(sink) THEN <<>>
        ELSE << [op |-> "emit_all_exhausted_error", attempts |-> attempts] >>)

ExhaustedResult(attempts, sink) ==
    IF WriteSummaryRaises(sink) THEN Raise("OSError", <<>>)
    ELSE Raise("AllCapacityExhaustedError", attempts)

\* -------------------------------------------------------------------- Init
Init ==
    /\ instance_types \in InstanceTypeLists
    /\ regions \in RegionLists
    /\ gh_runner_tokens \in { [i \in 1..n |-> i] : n \in 1..MaxTokens }
    /\ retry_count \in 0..MaxRetry
    /\ retry_delay \in RetryDelays
    /\ check_availability \in BOOLEAN
    /\ backend \in [first : Responses, first_calls : 1..MaxFirstCalls, rest : Responses]
    /\ pc = "start"
    /\ available_options = <<>>
    /\ idx = 0
    /\ option_index = 1
    /\ retry = 0
    /\ instance_id = 0
    /\ successful = <<>>
    /\ token_attempts = <<>>
    /\ all_attempts = <<>>
    /\ id_dict = <<>>
    /\ events = <<>>
    /\ result = [kind |-> "running", exc |-> "", attempts |-> <<>>, value |-> <<>>]
    /\ FilterIdle
    /\ ClassifyIdle
    /\ WaitIdle
    /\ SummaryIdle
    /\ SetupIdle
    /\ MappingIdle
    /\ ValidateIdle
    /\ MainIdle

\* ----------------------------------------------------------------- actions
\* start.py:394-412: availability pre-check, with the fail-fast path.
CheckAvailability ==
    /\ pc = "start"
    /\ check_availability
    /\ \E availability \in AvailabilityResponses :
        LET opts == filter_available_options(instance_types, regions, availability)
            query == << [op |-> "get_availability"] >>
        IN  IF opts = <<>>
            THEN \E sink \in SinkStates :
                 /\ all_attempts' = PreCheckAttempts
                 /\ events' = events \o query \o ExhaustedEvents(PreCheckAttempts, sink)
                 /\ result' = ExhaustedResult(PreCheckAttempts, sink)
                 /\ pc' = "raised"
                 /\ UNCHANGED available_options
            ELSE /\ available_options' = opts
                 /\ events' = events \o query
                 /\ pc' = "token"
                 /\ UNCHANGED << all_attempts, result >>
    /\ UNCHANGED << params, idx, option_index, retry, instance_id, successful,
                    token_attempts, id_dict >>

\* start.py:394-398 with start.py:163-174: the availability query fails and
\* the HTTPError leaves create_instances; nothing is recorded or reported.
CheckAvailabilityFails ==
    /\ pc = "start"
    /\ check_availability
    /\ \E code \in AvailabilityErrorCodes :
        events' = Append(events, [op |-> "get_availability",
                                  status_code |-> code])
    /\ result' = Raise("HTTPError", <<>>)
    /\ pc' = "raised"
    /\ UNCHANGED << params, available_options, idx, option_index, retry,
                    instance_id, successful, token_attempts, all_attempts,
                    id_dict >>

\* start.py:413-417: no pre-check, the full cross-product.
SkipAvailability ==
    /\ pc = "start"
    /\ ~check_availability
    /\ available_options' = CrossProduct(instance_types, regions)
    /\ pc' = "token"
    /\ UNCHANGED << params, idx, option_index, retry, instance_id, successful,
                    token_attempts, all_attempts, id_dict, events, result >>

\* Variant of BeginToken: the availability is queried again for every token.
BeginTokenQuerying ==
    /\ pc = "token"
    /\ instance_id' = 0
    /\ successful' = <<>>
    /\ token_attempts' = <<>>
    /\ option_index' = 1
    /\ retry' = 0
    /\ events' = Append(events, [op |-> "get_availability"])
    /\ pc' = IF Len(available_options) >= 1 /\ retry_count >= 1
             THEN "launch" ELSE "token_done"
    /\ UNCHANGED << params, available_options, idx, all_attempts, id_dict,
                    result >>

\* Variant of BeginToken: the search resumes at the option the previous
\* identity stopped at instead of the head of the candidate list.
BeginTokenResuming ==
    /\ pc = "token"
    /\ instance_id' = 0
    /\ successful' = <<>>
    /\ token_attempts' = <<>>
    /\ option_index' = IF option_index <= Len(available_options)
                       THEN option_index ELSE 1
    /\ retry' = 0
    /\ pc' = IF Len(available_options) >= 1 /\ retry_count >= 1
             THEN "launch" ELSE "token_done"
    /\ UNCHANGED << params, available_options, idx, all_attempts, id_dict,
                    events, result >>

\* start.py:419-439: one iteration of the token loop begins; the option loop
\* and the retry loop are entered when they have an element.
BeginToken ==
    /\ pc = "token"
    /\ instance_id' = 0
    /\ successful' = <<>>
    /\ token_attempts' = <<>>
    /\ option_index' = 1
    /\ retry' = 0
    /\ pc' = IF Len(available_options) >= 1 /\ retry_count >= 1
             THEN "launch" ELSE "token_done"
    /\ UNCHANGED << params, available_options, idx, all_attempts, id_dict,
                    events, result >>

\* ------------------------------------------------------- the launch loop
\* The (type, region) pair the option loop is at.
CurrentOption == available_options[option_index]

\* The launch call of start.py:447-451, with the response it got.
LaunchEvent(resp) ==
    [op |-> "launch", idx |-> idx, option_index |-> option_index,
     instance_type |-> CurrentOption[1], region |-> CurrentOption[2],
     attempt |-> retry + 1, response |-> resp]

\* The LaunchAttempt of start.py:440-444 for the call being made.
CurrentAttempt == LaunchAttempt(CurrentOption[1], CurrentOption[2], retry + 1)

\* Variant of NextOptionIndex: the option loop skips an element.
NextOptionIndexSkipping(p) == p + 2

\* The option loop's step to its next element (for ... in available_options).
NextOptionIndex(p) == p + 1

\* Variant of RetriesSameOption: the CapacityError handler lacks its break, so
\* a capacity failure is retried like a rate limit.
RetriesSameOptionNoCapacityBreak(exc, r) ==
    r < retry_count - 1

\* Whether a handler lets the retry loop go on with the same option: the
\* CapacityError handler always breaks (start.py:470-471), the RateLimitError
\* handler breaks once the retries are used up (start.py:477-485).
RetriesSameOption(exc, r) ==
    exc = "RateLimitError" /\ r < retry_count - 1

\* Variant of BackoffDelay: the exponent counts the 1-based attempt.
BackoffDelayFromAttempt(r, retry_after) ==
    IF retry_after /= <<>> /\ retry_after[1] /= 0
    THEN Max(retry_delay * (2 ^ (r + 1)), retry_after[1])
    ELSE retry_delay * (2 ^ (r + 1))

\* Variant of BackoffDelay: a server hint replaces the computed delay.
BackoffDelayHintReplaces(r, retry_after) ==
    IF retry_after /= <<>> /\ retry_after[1] /= 0
    THEN retry_after[1]
    ELSE retry_delay * (2 ^ r)

\* delay = retry_delay * 2**retry; if e.retry_after: delay = max(delay, e.retry_after)
BackoffDelay(r, retry_after) ==
    IF retry_after /= <<>> /\ retry_after[1] /= 0
    THEN Max(retry_delay * (2 ^ r), retry_after[1])
    ELSE retry_delay * (2 ^ r)

\* _get_next_option_from_list: what the capacity warning names as tried next
\* (<<>> is the empty description; options.index finds the first occurrence).
FirstIndexOf(options, o) ==
    CHOOSE n \in DOMAIN options :
        /\ options[n] = o
        /\ \A m \in 1..(n - 1) : options[m] /= o

GetNextOptionFromList(options, o) ==
    LET current_idx == FirstIndexOf(options, o)
    IN  IF current_idx + 1 <= Len(options)
        THEN IF options[current_idx + 1][1] = o[1]
             THEN options[current_idx + 1]
             ELSE << options[current_idx + 1][1] >>
        ELSE <<>>

\* The position the loops are at after a handled failure of the current call.
MoveOn(exc) ==
    IF RetriesSameOption(exc, retry)
    THEN /\ option_index' = option_index
         /\ retry' = retry + 1
         /\ pc' = "launch"
    ELSE /\ option_index' = NextOptionIndex(option_index)
         /\ retry' = 0
         /\ pc' = IF NextOptionIndex(option_index) <= Len(available_options)
                  THEN "launch" ELSE "token_done"

\* Variant of LaunchSuccess: the option loop lacks its "if instance_id: break"
\* and goes on to the next option.
LaunchSuccessKeepsSearching ==
    /\ pc = "launch"
    /\ NextResponse.kind = "ok"
    /\ instance_id' = NumLaunches + 1
    /\ token_attempts' = Append(token_attempts,
            [CurrentAttempt EXCEPT !.success = TRUE, !.instance_id = NumLaunches + 1])
    /\ successful' = CurrentOption
    /\ events' = Append(events, LaunchEvent(NextResponse))
    /\ option_index' = option_index + 1
    /\ retry' = 0
    /\ pc' = IF option_index + 1 <= Len(available_options)
             THEN "launch" ELSE "token_done"
    /\ UNCHANGED << params, available_options, idx, all_attempts, id_dict, result >>

\* start.py:446-458: the launch call returns an instance id.
LaunchSuccess ==
    /\ pc = "launch"
    /\ NextResponse.kind = "ok"
    /\ instance_id' = NumLaunches + 1
    /\ token_attempts' = Append(token_attempts,
            [CurrentAttempt EXCEPT !.success = TRUE, !.instance_id = NumLaunches + 1])
    /\ successful' = CurrentOption
    /\ events' = Append(events, LaunchEvent(NextResponse))
    /\ pc' = "token_done"
    /\ UNCHANGED << params, available_options, idx, option_index, retry,
                    all_attempts, id_dict, result >>

\* start.py:460-471: CapacityError; warn and leave the option.
LaunchCapacity ==
    /\ pc = "launch"
    /\ NextResponse.kind = "CapacityError"
    /\ token_attempts' = Append(token_attempts,
            [CurrentAttempt EXCEPT !.error = ErrorText(NextResponse)])
    /\ events' = events \o
            << LaunchEvent(NextResponse),
               [op |-> "emit_capacity_warning", instance_type |-> CurrentOption[1],
                region |-> CurrentOption[2],
                next_option |-> GetNextOptionFromList(available_options, CurrentOption)] >>
    /\ MoveOn("CapacityError")
    /\ UNCHANGED << params, available_options, idx, instance_id, successful,
                    all_attempts, id_dict, result >>

\* start.py:473-485: RateLimitError; back off and retry, or leave the option.
LaunchRateLimit ==
    /\ pc = "launch"
    /\ NextResponse.kind = "RateLimitError"
    /\ token_attempts' = Append(token_attempts,
            [CurrentAttempt EXCEPT !.error = ErrorText(NextResponse)])
    /\ events' = events \o << LaunchEvent(NextResponse) >> \o
            (IF retry < retry_count - 1
             THEN << [op |-> "sleep",
                      delay |-> BackoffDelay(retry, NextResponse.retry_after)] >>
             ELSE <<>>)
    /\ MoveOn("RateLimitError")
    /\ UNCHANGED << params, available_options, idx, instance_id, successful,
                    all_attempts, id_dict, result >>

\* Variant of LaunchConfiguration: the handler records the attempt and breaks
\* instead of re-raising.
LaunchConfigurationSwallowed ==
    /\ pc = "launch"
    /\ NextResponse.kind = "ConfigurationError"
    /\ token_attempts' = Append(token_attempts,
            [CurrentAttempt EXCEPT !.error = ErrorText(NextResponse)])
    /\ events' = Append(events, LaunchEvent(NextResponse))
    /\ MoveOn("ConfigurationError")
    /\ UNCHANGED << params, available_options, idx, instance_id, successful,
                    all_attempts, id_dict, result >>

\* start.py:487-492: ConfigurationError; record the attempt and re-raise.
LaunchConfiguration ==
    /\ pc = "launch"
    /\ NextResponse.kind = "ConfigurationError"
    /\ token_attempts' = Append(token_attempts,
            [CurrentAttempt EXCEPT !.error = ErrorText(NextResponse)])
    /\ all_attempts' = all_attempts \o token_attempts'
    /\ events' = Append(events, LaunchEvent(NextResponse))
    /\ result' = Raise("ConfigurationError", <<>>)
    /\ pc' = "raised"
    /\ UNCHANGED << params, available_options, idx, option_index, retry,
                    instance_id, successful, id_dict >>

\* The exceptions of a launch call that no except clause of start.py:460-492
\* names.
UncaughtKinds == {"LambdaGHAError", "RuntimeError", "HTTPError"}

\* start.py:446-492: an exception no except clause names (the base
\* LambdaGHAError of classify_api_error, errors.py:123-124, the RuntimeError
\* of start.py:337/345, the HTTPError of start.py:174) leaves the try
\* statement and create_instances; no attempt is recorded for the call.
LaunchUnknown ==
    /\ pc = "launch"
    /\ NextResponse.kind \in UncaughtKinds
    /\ events' = Append(events, LaunchEvent(NextResponse))
    /\ result' = Raise(NextResponse.kind, <<>>)
    /\ pc' = "raised"
    /\ UNCHANGED << params, available_options, idx, option_index, retry,
                    instance_id, successful, token_attempts, all_attempts, id_dict >>

\* Variant of EndToken: the grant carries the first option of the candidate
\* list instead of the option the launch succeeded on.
EndTokenGrantingFirstOption ==
    /\ pc = "token_done"
    /\ all_attempts' = all_attempts \o token_attempts
    /\ id_dict' = IF instance_id /= 0
                  THEN Append(id_dict,
                        [instance_id |-> instance_id, idx |-> idx,
                         runner_token |-> gh_runner_tokens[idx + 1],
                         instance_type |-> available_options[1][1],
                         region |-> available_options[1][2]])
                  ELSE id_dict
    /\ IF idx + 1 < Len(gh_runner_tokens)
       THEN /\ idx' = idx + 1
            /\ pc' = "token"
       ELSE /\ idx' = idx
            /\ pc' = "report"
    /\ UNCHANGED << params, available_options, option_index, retry, instance_id,
                    successful, token_attempts, events, result >>

\* start.py:494-542: the token's attempts join the ledger; a launched
\* instance gets its entry in id_dict; the token loop steps on.
EndToken ==
    /\ pc = "token_done"
    /\ all_attempts' = all_attempts \o token_attempts
    /\ id_dict' = IF instance_id /= 0
                  THEN Append(id_dict,
                        [instance_id |-> instance_id, idx |-> idx,
                         runner_token |-> gh_runner_tokens[idx + 1],
                         instance_type |-> successful[1],
                         region |-> successful[2]])
                  ELSE id_dict
    /\ IF idx + 1 < Len(gh_runner_tokens)
       THEN /\ idx' = idx + 1
            /\ pc' = "token"
       ELSE /\ idx' = idx
            /\ pc' = "report"
    /\ UNCHANGED << params, available_options, option_index, retry, instance_id,
                    successful, token_attempts, events, result >>

\* start.py:545-553 and 561: at least one instance; summary, then return.
ReportSuccess ==
    /\ pc = "report"
    /\ id_dict /= <<>>
    /\ \E sink \in SinkStates :
        /\ events' = events \o
                SummaryEvents(all_attempts, TRUE, id_dict[1].instance_id, sink)
        /\ IF WriteSummaryRaises(sink)
           THEN /\ result' = Raise("OSError", <<>>)
                /\ pc' = "raised"
           ELSE /\ result' = Return(id_dict)
                /\ pc' = "returned"
    /\ UNCHANGED << params, available_options, idx, option_index, retry,
                    instance_id, successful, token_attempts, all_attempts, id_dict >>

\* start.py:554-559: no instance at all; summary, annotation, raise.
ReportExhausted ==
    /\ pc = "report"
    /\ id_dict = <<>>
    /\ \E sink \in SinkStates :
        /\ events' = events \o ExhaustedEvents(all_attempts, sink)
        /\ result' = ExhaustedResult(all_attempts, sink)
    /\ pc' = "raised"
    /\ UNCHANGED << params, available_options, idx, option_index, retry,
                    instance_id, successful, token_attempts, all_attempts, id_dict >>

Next ==
    \/ CheckAvailability
    \/ CheckAvailabilityFails
    \/ SkipAvailability
    \/ BeginToken
    \/ LaunchSuccess
    \/ LaunchCapacity
    \/ LaunchRateLimit
    \/ LaunchConfiguration
    \/ LaunchUnknown
    \/ EndToken
    \/ ReportSuccess
    \/ ReportExhausted

Spec == Init /\ [][Next]_vars

\* create_instances is sequential code: a step that can be taken is taken,
\* provided each backend call, sleep and write returns.
SpecLive == Init /\ [][Next]_vars /\ WF_vars(Next)

\* ============================================================ properties
NumTokens == Len(gh_runner_tokens)

\* The launch calls made so far for identity i on the option at position p.
LaunchesOf(i, p) ==
    { n \in LaunchEvents : events[n].idx = i /\ events[n].option_index = p }

\* m is the launch call that follows launch call n for the same identity.
IsNextLaunchOfIdentity(n, m) ==
    /\ m \in LaunchEvents
    /\ m > n
    /\ events[m].idx = events[n].idx
    /\ \A x \in LaunchEvents : (n < x /\ x < m) => events[x].idx /= events[n].idx

Terminated == pc \in {"returned", "raised"}

\* The availability pre-check passed (or was skipped): the token loop ran.
PreCheckPassed == available_options /= <<>>

\* The token loop ran to its end and the final reporting was reached.
AllTokensProcessed ==
    /\ Terminated
    /\ PreCheckPassed
    /\ \E n \in DOMAIN events : events[n].op = "format_launch_summary"

NoDuplicateOption ==
    \A a, b \in DOMAIN available_options :
        available_options[a] = available_options[b] => a = b

\* ------------------------------------------------------------------- C1
\* C1 (as stated): after a launch call on (type, region) fails with
\* CapacityError, the next launch call of that identity targets the next entry
\* of the candidate list and no later call of that identity targets
\* (type, region) again.
C1_CapacityPairNeverTargetedAgain ==
    \A n \in LaunchEvents :
        events[n].response.kind = "CapacityError" =>
            \A m \in LaunchEvents :
                (m > n /\ events[m].idx = events[n].idx) =>
                    /\ IsNextLaunchOfIdentity(n, m) =>
                            events[m].option_index = events[n].option_index + 1
                    /\ ~ ( /\ events[m].instance_type = events[n].instance_type
                           /\ events[m].region = events[n].region )

\* C1 (amended): after a launch call on the entry at position p fails with
\* CapacityError, the next launch call of that identity targets position p+1
\* and no later call of that identity targets position p or an earlier one;
\* the pair (type, region) itself is not targeted again when the candidate
\* list names no pair twice.
C1_CapacityAdvancesAndPositionNeverRetried ==
    \A n \in LaunchEvents :
        events[n].response.kind = "CapacityError" =>
            \A m \in LaunchEvents :
                (m > n /\ events[m].idx = events[n].idx) =>
                    /\ IsNextLaunchOfIdentity(n, m) =>
                            events[m].option_index = events[n].option_index + 1
                    /\ events[m].option_index > events[n].option_index
                    /\ NoDuplicateOption =>
                            ~ ( /\ events[m].instance_type = events[n].instance_type
                                /\ events[m].region = events[n].region )

\* A capacity failure on a first try, with retries configured, followed by a
\* launch call of the same identity on the next option.
C1_Witness ==
    \E n, m \in LaunchEvents :
        /\ retry_count >= 2
        /\ events[n].response.kind = "CapacityError"
        /\ events[n].attempt = 1
        /\ IsNextLaunchOfIdentity(n, m)
        /\ events[m].option_index = events[n].option_index + 1
        /\ events[m].region /= events[n].region

\* ------------------------------------------------------------------- C2
RateLimitedNoHint ==
    [kind |-> "RateLimitError", retry_after |-> <<>>, message |-> ""]

\* C2: an option whose every launch call (for one identity) is rate-limited
\* without server hint gets exactly retry_count calls, numbered 1..retry_count;
\* the i-th failure with i < retry_count is followed by one sleep of
\* retry_delay * 2^(i-1) and then by the next call on the same option; the
\* retry_count-th failure is followed by no sleep and no further call on the
\* option, the next call of the identity being on the next option.
C2_RateLimitedOptionGetsCeilingCallsWithBackoff ==
    \A i \in 0..(NumTokens - 1), p \in DOMAIN available_options :
        LET S == LaunchesOf(i, p)
        IN  (S /= {} /\ \A n \in S : events[n].response = RateLimitedNoHint) =>
            /\ Cardinality(S) <= retry_count
            /\ ~ (pc = "launch" /\ idx = i /\ option_index = p) =>
                    Cardinality(S) = retry_count
            /\ \A n \in S :
                LET j == events[n].attempt
                IN  /\ j = Cardinality({ m \in S : m <= n })
                    /\ IF j < retry_count
                       THEN /\ n + 1 \in DOMAIN events
                            /\ events[n + 1] =
                                [op |-> "sleep", delay |-> retry_delay * (2 ^ (j - 1))]
                            /\ (n + 2 \in DOMAIN events) => (n + 2 \in S)
                       ELSE /\ (n + 1 \in DOMAIN events) =>
                                    /\ events[n + 1].op /= "sleep"
                                    /\ (n + 1) \notin S
                            /\ \A m \in LaunchEvents :
                                    IsNextLaunchOfIdentity(n, m) =>
                                        events[m].option_index = p + 1

\* Ceiling 3 and base delay 1: three calls on one option, sleeps 1 then 2, and
\* the identity's fourth call is on the next option.
C2_Witness ==
    /\ retry_count = 3
    /\ retry_delay = 1
    /\ \E n \in LaunchEvents :
        /\ n + 5 \in LaunchEvents
        /\ \A x \in {n, n + 2, n + 4} :
                /\ x \in LaunchesOf(events[n].idx, events[n].option_index)
                /\ events[x].response = RateLimitedNoHint
        /\ events[n + 1] = [op |-> "sleep", delay |-> 1]
        /\ events[n + 3] = [op |-> "sleep", delay |-> 2]
        /\ events[n + 5].idx = events[n].idx
        /\ events[n + 5].option_index = events[n].option_index + 1

\* ------------------------------------------------------------------- C3
\* C3: every sleep follows a rate-limited launch call that has a retry left
\* (try index j < retry_count), and when that failure carries a retry-after
\* hint h the sleep equals max(retry_delay * 2^(j-1), h); every rate-limited
\* call with a retry left is followed by such a sleep.
C3_SleepIsMaxOfBackoffAndHint ==
    /\ \A n \in DOMAIN events :
        events[n].op = "sleep" =>
            /\ n - 1 \in LaunchEvents
            /\ events[n - 1].response.kind = "RateLimitError"
            /\ events[n - 1].attempt < retry_count
            /\ LET j == events[n - 1].attempt
                   h == events[n - 1].response.retry_after
               IN  events[n].delay =
                        IF h = <<>> THEN retry_delay * (2 ^ (j - 1))
                        ELSE Max(retry_delay * (2 ^ (j - 1)), h[1])
    /\ \A n \in LaunchEvents :
        ( /\ events[n].response.kind = "RateLimitError"
          /\ events[n].attempt < retry_count ) =>
            /\ n + 1 \in DOMAIN events
            /\ events[n + 1].op = "sleep"

\* One option sees a hint larger than the computed delay (3 > 2) override it
\* and then the same hint, smaller than the computed delay (3 < 4), ignored.
C3_Witness ==
    \E n \in LaunchEvents :
        /\ retry_delay = 2
        /\ events[n].response.kind = "RateLimitError"
        /\ events[n].response.retry_after = <<3>>
        /\ events[n].attempt = 1
        /\ n + 3 \in DOMAIN events
        /\ events[n + 1] = [op |-> "sleep", delay |-> 3]
        /\ events[n + 2].op = "launch"
        /\ events[n + 2].response.kind = "RateLimitError"
        /\ events[n + 2].response.retry_after = <<3>>
        /\ events[n + 3] = [op |-> "sleep", delay |-> 4]

\* ------------------------------------------------------------------- C4
\* C4: a launch call that fails with ConfigurationError is the last effect of
\* the run: nothing (no launch call for any option or identity) follows it,
\* and create_instances has raised the ConfigurationError.
C4_ConfigurationEndsAllLaunching ==
    \A n \in LaunchEvents :
        events[n].response.kind = "ConfigurationError" =>
            /\ n = Len(events)
            /\ pc = "raised"
            /\ result.kind = "raise"
            /\ result.exc = "ConfigurationError"

\* A ConfigurationError on the first option of the first of two identities,
\* with a retry, a further option and a further identity all still to come.
C4_Witness ==
    /\ pc = "raised"
    /\ result.exc = "ConfigurationError"
    /\ NumTokens = 2
    /\ idx = 0
    /\ retry_count >= 2
    /\ Len(available_options) >= 2
    /\ option_index = 1
    /\ NumLaunches = 1

\* ------------------------------------------------------------------- C5
\* C5: when a ConfigurationError aborts the run, the grants of the identities
\* served before the abort reach the caller of create_instances.
C5_GrantsSurfacedOnConfigurationAbort ==
    (pc = "raised" /\ result.exc = "ConfigurationError") =>
        result.value = id_dict

\* ------------------------------------------------------------------- C6
\* The ledger entry of launch call n (of the current or of a finished token).
RecordedInLedger(n) ==
    \E k \in DOMAIN (all_attempts \o token_attempts) :
        LET a == (all_attempts \o token_attempts)[k]
        IN  /\ a.instance_type = events[n].instance_type
            /\ a.region = events[n].region
            /\ a.attempt = events[n].attempt
            /\ ~a.success
            /\ a.error /= ""

\* C6: a launch call that fails with an unclassified error is recorded in the
\* ledger, is not retried on the same option, and does not abort the run while
\* options remain: the identity's next call is on the next option.
C6_UnknownHandledLikeCapacity ==
    \A n \in LaunchEvents :
        events[n].response.kind = "LambdaGHAError" =>
            /\ RecordedInLedger(n)
            /\ events[n].option_index < Len(available_options) => pc /= "raised"
            /\ \A m \in LaunchEvents :
                    IsNextLaunchOfIdentity(n, m) =>
                        events[m].option_index = events[n].option_index + 1

\* ------------------------------------------------------------------- C7
\* The k-th launch call made during the run.
RECURSIVE LaunchSeq(_)
LaunchSeq(n) ==
    IF n = 0 THEN <<>>
    ELSE IF events[n].op = "launch" THEN Append(LaunchSeq(n - 1), events[n])
         ELSE LaunchSeq(n - 1)

AttemptMatchesCall(a, e) ==
    /\ a.instance_type = e.instance_type
    /\ a.region = e.region
    /\ a.attempt = e.attempt
    /\ a.success = (e.response.kind = "ok")

\* C7: when create_instances has returned or raised after the pre-check, the
\* ledger holds one LaunchAttempt per launch call, in the order of the calls.
C7_LedgerIsExactlyTheLaunchCalls ==
    (Terminated /\ PreCheckPassed) =>
        /\ Len(all_attempts) = NumLaunches
        /\ \A k \in DOMAIN all_attempts :
                AttemptMatchesCall(all_attempts[k], LaunchSeq(Len(events))[k])

\* ------------------------------------------------------------------- C8
\* C8: when every identity was processed and none got an instance, the run
\* ends with the summary rendered, write_summary called and the exhausted
\* annotation emitted, in that order, and raises AllCapacityExhaustedError
\* carrying the whole ledger.
C8_ExhaustedRunReportsThenRaises ==
    (AllTokensProcessed /\ id_dict = <<>>) =>
        /\ result.kind = "raise"
        /\ result.exc = "AllCapacityExhaustedError"
        /\ result.attempts = all_attempts
        /\ Len(events) >= 3
        /\ events[Len(events) - 2].op = "format_launch_summary"
        /\ events[Len(events) - 2].attempts = all_attempts
        /\ events[Len(events) - 1].op = "write_summary"
        /\ events[Len(events)].op = "emit_all_exhausted_error"

\* ------------------------------------------------------------------- C9
\* C9: when every identity was processed, at least one got an instance and at
\* least one exhausted its options, create_instances returns the mapping of
\* exactly the granted identities, raises nothing and terminates no instance.
C9_PartialSuccessReturnsGrants ==
    ( /\ AllTokensProcessed
      /\ id_dict /= <<>>
      /\ Len(id_dict) < NumTokens ) =>
        /\ result.kind = "return"
        /\ result.value = id_dict
        /\ \A n \in LaunchEvents :
                events[n].response.kind = "ok" =>
                    \E g \in DOMAIN result.value :
                        /\ result.value[g].idx = events[n].idx
                        /\ result.value[g].instance_type = events[n].instance_type
                        /\ result.value[g].region = events[n].region
        /\ \A g \in DOMAIN result.value :
                \E n \in LaunchEvents :
                    /\ events[n].response.kind = "ok"
                    /\ events[n].idx = result.value[g].idx
        /\ \A n \in DOMAIN events : events[n].op /= "terminate"

\* ------------------------------------------------------------------ C10
\* C10: for every identity the targeted position never decreases from one
\* launch call to the next, every targeted entry is the entry of the
\* candidate list at that position, and a position is targeted only after
\* each earlier position got a launch call of that identity that failed.
C10_OptionsFollowCandidateOrder ==
    LET launches == LaunchEvents IN
    \A n \in launches :
        /\ events[n].option_index \in DOMAIN available_options
        /\ << events[n].instance_type, events[n].region >> =
                available_options[events[n].option_index]
        /\ \A m \in launches :
                (m > n /\ events[m].idx = events[n].idx) =>
                    events[m].option_index >= events[n].option_index
        /\ \A q \in 1..(events[n].option_index - 1) :
                \E x \in launches :
                    /\ x < n
                    /\ events[x].idx = events[n].idx
                    /\ events[x].option_index = q
                    /\ events[x].response.kind /= "ok"

\* An identity that retried its first option and went on to reach the third.
C10_Witness ==
    \E n \in LaunchEvents :
        /\ events[n].option_index = 3
        /\ Cardinality(LaunchesOf(events[n].idx, 1)) >= 2
        /\ events[n].idx = 1

\* ======================================================================
\* filter_available_options on its own (start.py:197-246)
\* ======================================================================
MaxListLen == 2

FilterTypeNames == {"a", "b"}
FilterRegionNames == {"r1", "r2"}

\* Every list of at most MaxListLen elements of S.
ListsOver(S) == UNION { [1..n -> S] : n \in 0..MaxListLen }

\* What get_availability can answer: each type is either absent or mapped to
\* the set of its regions with capacity (start.py:190-193).
FilterAvailabilities ==
    UNION { [D -> SUBSET (FilterRegionNames \cup {"r3"})] : D \in SUBSET FilterTypeNames }

\* create_instances is not running.
CreateIdle ==
    /\ instance_types = <<>>
    /\ regions = <<>>
    /\ gh_runner_tokens = <<>>
    /\ retry_count = 0
    /\ retry_delay = 0
    /\ check_availability = FALSE
    /\ backend = <<>>
    /\ pc = "idle"
    /\ available_options = <<>>
    /\ idx = 0
    /\ option_index = 1
    /\ retry = 0
    /\ instance_id = 0
    /\ successful = <<>>
    /\ token_attempts = <<>>
    /\ all_attempts = <<>>
    /\ id_dict = <<>>
    /\ events = <<>>
    /\ result = <<>>

FilterInit ==
    /\ filter_args \in [instance_types : ListsOver(FilterTypeNames),
                        regions : ListsOver(FilterRegionNames),
                        availability : FilterAvailabilities]
    /\ filter_result = <<>>
    /\ CreateIdle
    /\ MappingIdle
    /\ ValidateIdle
    /\ MainIdle
    /\ ClassifyIdle
    /\ WaitIdle
    /\ SummaryIdle
    /\ SetupIdle

\* start.py:197-246: one call; filter_result holds the returned list.
FilterCall ==
    /\ filter_args /= <<>>
    /\ filter_result = <<>>
    /\ filter_result' = << filter_available_options(filter_args.instance_types,
                                                    filter_args.regions,
                                                    filter_args.availability) >>
    /\ UNCHANGED << summary_vars, setup_vars, create_vars, mapping_vars, validate_vars, main_vars, filter_args, classify_vars, wait_vars >>

FilterNext == FilterCall

SpecFilter == FilterInit /\ [][FilterNext]_vars

\* ------------------------------------------------------------------ C13
\* The pairs of the type-major cross-product whose region the response
\* reports available for their type, in cross-product order.
AvailablePairs(types, regs, availability) ==
    LET HasCapacity(p) == p[2] \in AvailableRegions(availability, p[1])
    IN  SelectSeq(CrossProduct(types, regs), HasCapacity)

\* C13: filter_available_options returns exactly the pairs of the type-major
\* cross-product whose region is reported available for their type, in
\* cross-product order; a type with no available region, or absent from the
\* response, contributes nothing. For {a: [], b: [r2]} and ([a,b], [r1,r2])
\* the result is [(b, r2)].
C13_FilterKeepsAvailablePairsInOrder ==
    filter_result /= <<>> =>
        /\ filter_result[1] = AvailablePairs(filter_args.instance_types,
                                             filter_args.regions,
                                             filter_args.availability)
        /\ \A n \in DOMAIN filter_result[1] :
            /\ filter_result[1][n][1] \in DOMAIN filter_args.availability
            /\ filter_args.availability[filter_result[1][n][1]] /= {}
        /\ ( /\ filter_args.instance_types = <<"a", "b">>
             /\ filter_args.regions = <<"r1", "r2">>
             /\ filter_args.availability = [t \in {"a", "b"} |->
                    IF t = "a" THEN {} ELSE {"r2"}] )
            => filter_result[1] = << <<"b", "r2">> >>

\* The call of the example has returned [(b, r2)].
C13_Witness ==
    /\ filter_args /= <<>>
    /\ filter_args.instance_types = <<"a", "b">>
    /\ filter_args.regions = <<"r1", "r2">>
    /\ filter_args.availability = [t \in {"a", "b"} |-> IF t = "a" THEN {} ELSE {"r2"}]
    /\ filter_result = << << <<"b", "r2">> >> >>

\* ======================================================================
\* classify_api_error on its own (errors.py:61-124)
\* ======================================================================
\* A Python string is modelled as the tuple of its characters.
UpperCaseLetters == <<"A", "B", "C", "D", "E", "F", "G", "H", "I", "J", "K", "L", "M", "N", "O", "P", "Q", "R", "S", "T", "U", "V", "W", "X", "Y", "Z">>
LowerCaseLetters == <<"a", "b", "c", "d", "e", "f", "g", "h", "i", "j", "k", "l", "m", "n", "o", "p", "q", "r", "s", "t", "u", "v", "w", "x", "y", "z">>
DigitChars == <<"0", "1", "2", "3", "4", "5", "6", "7", "8", "9">>

\* str.lower() on one character, and on a string.
LowerChar(c) ==
    IF \E n \in DOMAIN UpperCaseLetters : UpperCaseLetters[n] = c
    THEN LowerCaseLetters[CHOOSE n \in DOMAIN UpperCaseLetters : UpperCaseLetters[n] = c]
    ELSE c

lower(s) == [n \in DOMAIN s |-> LowerChar(s[n])]

\* str.replace(old, new) for one-character old and new.
replace(s, old, new) == [n \in DOMAIN s |-> IF s[n] = old THEN new ELSE s[n]]

\* "word in s"
Contains(s, word) ==
    \E n \in 0..(Len(s) - Len(word)) : SubSeq(s, n + 1, n + Len(word)) = word

\* str(n) for a one-digit n.
IntText(n) == << DigitChars[n + 1] >>

\* errors.py:62-67
CAPACITY_ERROR_CODES ==
    { <<"i", "n", "s", "u", "f", "f", "i", "c", "i", "e", "n", "t", "-", "c", "a", "p", "a", "c", "i", "t", "y">>,
      <<"i", "n", "s", "u", "f", "f", "i", "c", "i", "e", "n", "t", "_", "c", "a", "p", "a", "c", "i", "t", "y">>,
      <<"n", "o", "-", "c", "a", "p", "a", "c", "i", "t", "y">>,
      <<"n", "o", "_", "c", "a", "p", "a", "c", "i", "t", "y">> }

\* errors.py:70-75
RATE_LIMIT_ERROR_CODES ==
    { <<"r", "a", "t", "e", "-", "l", "i", "m", "i", "t">>,
      <<"r", "a", "t", "e", "_", "l", "i", "m", "i", "t">>,
      <<"t", "o", "o", "-", "m", "a", "n", "y", "-", "r", "e", "q", "u", "e", "s", "t", "s">>,
      <<"t", "o", "o", "_", "m", "a", "n", "y", "_", "r", "e", "q", "u", "e", "s", "t", "s">> }

\* errors.py:78-89
NON_RETRYABLE_ERROR_CODES ==
    { <<"i", "n", "v", "a", "l", "i", "d", "-", "i", "n", "s", "t", "a", "n", "c", "e", "-", "t", "y", "p", "e">>,
      <<"i", "n", "v", "a", "l", "i", "d", "_", "i", "n", "s", "t", "a", "n", "c", "e", "_", "t", "y", "p", "e">>,
      <<"i", "n", "v", "a", "l", "i", "d", "-", "r", "e", "g", "i", "o", "n">>,
      <<"i", "n", "v", "a", "l", "i", "d", "_", "r", "e", "g", "i", "o", "n">>,
      <<"a", "u", "t", "h", "e", "n", "t", "i", "c", "a", "t", "i", "o", "n", "-", "e", "r", "r", "o", "r">>,
      <<"a", "u", "t", "h", "e", "n", "t", "i", "c", "a", "t", "i", "o", "n", "_", "e", "r", "r", "o", "r">>,
      <<"q", "u", "o", "t", "a", "-", "e", "x", "c", "e", "e", "d", "e", "d">>,
      <<"q", "u", "o", "t", "a", "_", "e", "x", "c", "e", "e", "d", "e", "d">>,
      <<"i", "n", "v", "a", "l", "i", "d", "-", "s", "s", "h", "-", "k", "e", "y">>,
      <<"i", "n", "v", "a", "l", "i", "d", "_", "s", "s", "h", "_", "k", "e", "y">> }

\* The words of the message fallback.
WordCapacity == <<"c", "a", "p", "a", "c", "i", "t", "y">>
WordRate == <<"r", "a", "t", "e">>

\* Raw "code" values of the payloads, grouped by the set their normal form
\* (lower case, spaces as hyphens) belongs to.
\*   'insufficient-capacity'
\*   'Insufficient Capacity'
\*   'no_capacity'
\*   'no capacity'
CapacityCodeInputs ==
    { <<"i", "n", "s", "u", "f", "f", "i", "c", "i", "e", "n", "t", "-", "c", "a", "p", "a", "c", "i", "t", "y">>,
      <<"I", "n", "s", "u", "f", "f", "i", "c", "i", "e", "n", "t", " ", "C", "a", "p", "a", "c", "i", "t", "y">>,
      <<"n", "o", "_", "c", "a", "p", "a", "c", "i", "t", "y">>,
      <<"n", "o", " ", "c", "a", "p", "a", "c", "i", "t", "y">> }

\*   'rate-limit'
\*   'RATE-LIMIT'
\*   'too many requests'
\*   'rate_limit'
RateLimitCodeInputs ==
    { <<"r", "a", "t", "e", "-", "l", "i", "m", "i", "t">>,
      <<"R", "A", "T", "E", "-", "L", "I", "M", "I", "T">>,
      <<"t", "o", "o", " ", "m", "a", "n", "y", " ", "r", "e", "q", "u", "e", "s", "t", "s">>,
      <<"r", "a", "t", "e", "_", "l", "i", "m", "i", "t">> }

\*   'quota-exceeded'
\*   'Invalid Region'
\*   'invalid_ssh_key'
\*   'AUTHENTICATION_ERROR'
ConfigurationCodeInputs ==
    { <<"q", "u", "o", "t", "a", "-", "e", "x", "c", "e", "e", "d", "e", "d">>,
      <<"I", "n", "v", "a", "l", "i", "d", " ", "R", "e", "g", "i", "o", "n">>,
      <<"i", "n", "v", "a", "l", "i", "d", "_", "s", "s", "h", "_", "k", "e", "y">>,
      <<"A", "U", "T", "H", "E", "N", "T", "I", "C", "A", "T", "I", "O", "N", "_", "E", "R", "R", "O", "R">> }

\*   'internal-error'
\*   'too_many-requests'
\*   'accelerator-error'
\*   ''
UnrecognizedCodeInputs ==
    { <<"i", "n", "t", "e", "r", "n", "a", "l", "-", "e", "r", "r", "o", "r">>,
      <<"t", "o", "o", "_", "m", "a", "n", "y", "-", "r", "e", "q", "u", "e", "s", "t", "s">>,
      <<"a", "c", "c", "e", "l", "e", "r", "a", "t", "o", "r", "-", "e", "r", "r", "o", "r">>,
      <<>> }

CodeInputs ==
    CapacityCodeInputs \cup RateLimitCodeInputs \cup ConfigurationCodeInputs
        \cup UnrecognizedCodeInputs

\*   'Quota exceeded'
\*   'Not enough capacity'
\*   'No CAPACITY'
\*   'Rate limited'
\*   'RATE LIMIT'
\*   'Failed to generate key'
\*   'Rate limited: no capacity'
\*   ''
\*   'Bad request'
MessageInputs ==
    { <<"Q", "u", "o", "t", "a", " ", "e", "x", "c", "e", "e", "d", "e", "d">>,
      <<"N", "o", "t", " ", "e", "n", "o", "u", "g", "h", " ", "c", "a", "p", "a", "c", "i", "t", "y">>,
      <<"N", "o", " ", "C", "A", "P", "A", "C", "I", "T", "Y">>,
      <<"R", "a", "t", "e", " ", "l", "i", "m", "i", "t", "e", "d">>,
      <<"R", "A", "T", "E", " ", "L", "I", "M", "I", "T">>,
      <<"F", "a", "i", "l", "e", "d", " ", "t", "o", " ", "g", "e", "n", "e", "r", "a", "t", "e", " ", "k", "e", "y">>,
      <<"R", "a", "t", "e", " ", "l", "i", "m", "i", "t", "e", "d", ":", " ", "n", "o", " ", "c", "a", "p", "a", "c", "i", "t", "y">>,
      <<>>,
      <<"B", "a", "d", " ", "r", "e", "q", "u", "e", "s", "t">> }

\* "retry_after" of the payload: missing, 0 or 5.
ClassifyHints == { <<>>, <<0>>, <<5>> }

\* A field that may be missing: <<>> when missing, <<v>> when it holds v.
Optional(S) == { <<>> } \cup { <<v>> : v \in S }

\* The error payloads: {} , or {"error": {...}} with each of "code",
\* "message" and "retry_after" either missing or present (in that order).
ErrorResponses ==
    { [error |-> <<>>] } \cup
    { [error |-> << e >>] :
        e \in [code : Optional(CodeInputs), message : Optional(MessageInputs),
               retry_after : ClassifyHints] }

\* str(d) of a dict given the texts of its items.
RECURSIVE JoinItems(_)
JoinItems(items) ==
    IF items = <<>> THEN <<>>
    ELSE IF Len(items) = 1 THEN items[1]
    ELSE items[1] \o <<",", " ">> \o JoinItems(Tail(items))

\* str(error_response), used when the payload has no "message".
Repr(payload) ==
    IF payload.error = <<>> THEN <<"{", "}">>
    ELSE LET e == payload.error[1]
             code_item == IF e.code = <<>> THEN <<>>
                          ELSE << <<"'", "c", "o", "d", "e", "'", ":", " ", "'">> \o e.code[1] \o <<"'">> >>
             message_item == IF e.message = <<>> THEN <<>>
                             ELSE << <<"'", "m", "e", "s", "s", "a", "g", "e", "'", ":", " ", "'">> \o e.message[1] \o <<"'">> >>
             hint_item == IF e.retry_after = <<>> THEN <<>>
                          ELSE << <<"'", "r", "e", "t", "r", "y", "_", "a", "f", "t", "e", "r", "'", ":", " ">> \o IntText(e.retry_after[1]) >>
         IN  <<"{", "'", "e", "r", "r", "o", "r", "'", ":", " ", "{">> \o JoinItems(code_item \o message_item \o hint_item) \o <<"}", "}">>

\* error_response.get("error", {})
ErrorOf(payload) ==
    IF payload.error = <<>>
    THEN [code |-> <<>>, message |-> <<>>, retry_after |-> <<>>]
    ELSE payload.error[1]

\* Variant of NormalizeCode: lower-cased only, spaces kept.
NormalizeCodeLowerOnly(raw) == lower(raw)

\* errors.py:107: .lower().replace(" ", "-")
NormalizeCode(raw) == replace(lower(raw), " ", "-")

\* Variant of MessageMentions: the message is searched as written.
MessageMentionsCaseSensitive(message, word) == Contains(message, word)

\* errors.py:111,115: word in message.lower()
MessageMentions(message, word) == Contains(lower(message), word)

\* errors.py:108: error.get("message", str(error_response))
MessageOf(payload) ==
    IF ErrorOf(payload).message = <<>> THEN Repr(payload)
    ELSE ErrorOf(payload).message[1]

\* errors.py:92-124. The result is the exception returned: its class, its
\* message and, for RateLimitError, its retry_after.
classify_api_error(payload) ==
    LET error == ErrorOf(payload)
        code == NormalizeCode(IF error.code = <<>> THEN <<>> ELSE error.code[1])
        message == MessageOf(payload)
    IN  IF code \in CAPACITY_ERROR_CODES \/ MessageMentions(message, WordCapacity)
        THEN [kind |-> "CapacityError",
              message |-> IF message = <<>> THEN <<"N", "o", " ", "c", "a", "p", "a", "c", "i", "t", "y", " ", "f", "o", "r", " ", " ", "i", "n", " ">> ELSE message,
              retry_after |-> <<>>]
        ELSE IF code \in RATE_LIMIT_ERROR_CODES \/ MessageMentions(message, WordRate)
        THEN [kind |-> "RateLimitError", message |-> message,
              retry_after |-> error.retry_after]
        ELSE IF code \in NON_RETRYABLE_ERROR_CODES
        THEN [kind |-> "ConfigurationError", message |-> message, retry_after |-> <<>>]
        ELSE [kind |-> "LambdaGHAError", message |-> message, retry_after |-> <<>>]

ClassifyInit ==
    /\ error_response \in ErrorResponses
    /\ classified = <<>>
    /\ CreateIdle
    /\ MappingIdle
    /\ ValidateIdle
    /\ MainIdle
    /\ FilterIdle
    /\ WaitIdle
    /\ SummaryIdle
    /\ SetupIdle

\* One call; classified holds the returned exception.
ClassifyCall ==
    /\ error_response /= <<>>
    /\ classified = <<>>
    /\ classified' = << classify_api_error(error_response) >>
    /\ UNCHANGED << summary_vars, setup_vars, create_vars, mapping_vars, validate_vars, main_vars, filter_vars, error_response, wait_vars >>

ClassifyNext == ClassifyCall

SpecClassify == ClassifyInit /\ [][ClassifyNext]_vars

\* ------------------------------------------------------------------ C17
\* The raw code of the payload under classification ("" when missing).
RawCode == IF ErrorOf(error_response).code = <<>> THEN <<>>
           ELSE ErrorOf(error_response).code[1]

\* The message under classification contains the word, in any letter case.
MessageHas(word) == Contains(lower(MessageOf(error_response)), word)

\* The kind the code alone stands for.
KindOfCode ==
    IF RawCode \in CapacityCodeInputs THEN "CapacityError"
    ELSE IF RawCode \in RateLimitCodeInputs THEN "RateLimitError"
    ELSE IF RawCode \in ConfigurationCodeInputs THEN "ConfigurationError"
    ELSE "LambdaGHAError"

\* C17: when the message contains neither "capacity" nor "rate", the kind is
\* the one of the normalized code: Capacity, RateLimit (carrying the payload's
\* retry_after), Configuration, and Unknown for every other code.
C17_CodeDecidesWhenMessageIsSilent ==
    (classified /= <<>> /\ ~MessageHas(WordCapacity) /\ ~MessageHas(WordRate)) =>
        /\ classified[1].kind = KindOfCode
        /\ classified[1].kind = "RateLimitError" =>
                classified[1].retry_after = ErrorOf(error_response).retry_after
        /\ RawCode \in UnrecognizedCodeInputs =>
                classified[1].kind = "LambdaGHAError"

\* Code "too many requests" with retry_after 5 and message "Bad request" was
\* classified RateLimit(retry_after=5).
C17_Witness ==
    /\ classified /= <<>>
    /\ RawCode = <<"t", "o", "o", " ", "m", "a", "n", "y", " ", "r", "e", "q", "u", "e", "s", "t", "s">>
    /\ ErrorOf(error_response).message = << <<"B", "a", "d", " ", "r", "e", "q", "u", "e", "s", "t">> >>
    /\ classified[1].kind = "RateLimitError"
    /\ classified[1].retry_after = <<5>>

\* ------------------------------------------------------------------ C18
\* C18: a payload whose code belongs to one of the three code sets is
\* classified by that set whatever its message says.
C18_RecognizedCodeIgnoresMessage ==
    (classified /= <<>> /\ RawCode \notin UnrecognizedCodeInputs) =>
        classified[1].kind = KindOfCode

\* ------------------------------------------------------------------ C19
\* C19: with an unrecognized or missing code the kind is decided by the
\* message, searched in any letter case: Capacity if it contains "capacity",
\* otherwise RateLimit if it contains "rate", otherwise Unknown; the call
\* always returns one of the kinds.
C19_MessageDecidesForUnrecognizedCode ==
    classified /= <<>> =>
        /\ classified[1].kind \in {"CapacityError", "RateLimitError",
                                   "ConfigurationError", "LambdaGHAError"}
        /\ RawCode \in UnrecognizedCodeInputs =>
            classified[1].kind =
                IF MessageHas(WordCapacity) THEN "CapacityError"
                ELSE IF MessageHas(WordRate) THEN "RateLimitError"
                ELSE "LambdaGHAError"

\* Code "internal-error" with message "No CAPACITY" was classified Capacity.
C19_Witness ==
    /\ classified /= <<>>
    /\ RawCode = <<"i", "n", "t", "e", "r", "n", "a", "l", "-", "e", "r", "r", "o", "r">>
    /\ ErrorOf(error_response).message = << <<"N", "o", " ", "C", "A", "P", "A", "C", "I", "T", "Y">> >>
    /\ classified[1].kind = "CapacityError"

\* ======================================================================
\* wait_until_ready on its own (start.py:633-693)
\* ======================================================================
\* start.py:29
INSTANCE_POLL_INTERVAL == 5

\* start.py:674, 680: a status line is repeated once this many seconds passed.
StatusLogInterval == 30

MaxFirstPolls == 2

\* The "ids" argument; pending = set(ids) drops the duplicate.
IdLists == { <<>>, <<1>>, <<1, 2>>, <<1, 1>> }

\* The "timeout" argument, in seconds.
Timeouts == { 0, 12, 40 }

\* What GET /instances/{id} can answer.
StatusResponse(status, ip, hostname) ==
    [kind |-> "status", status |-> status, ip |-> ip, hostname |-> hostname]

HTTPErrorResponse(code) == [kind |-> "http_error", status_code |-> code]

TransientResponses ==
    { StatusResponse("booting", <<>>, <<>>), HTTPErrorResponse(404) }

StatusResponses ==
    TransientResponses \cup
    { StatusResponse("active", <<"10.0.0.1">>, <<"host">>),
      StatusResponse("active", <<>>, <<>>),
      StatusResponse("terminated", <<>>, <<>>),
      StatusResponse("terminating", <<>>, <<>>),
      HTTPErrorResponse(500) }

\* The seconds one GET /instances/{id} takes to come back: time.time()
\* (start.py:653) counts them like the seconds slept.
RequestLatencies == {0, 7}

\* The backend's answers for one instance: "first" for the first first_polls
\* requests, "rest" from then on, each after "latency" seconds.
StatusScripts ==
    { sc \in [first : TransientResponses, first_polls : 0..MaxFirstPolls,
              rest : StatusResponses, latency : RequestLatencies] :
        sc.first_polls = 0 => sc.first = StatusResponse("booting", <<>>, <<>>) }

\* set(ids)
IdSet(l) == { l[n] : n \in DOMAIN l }

\* The orders in which a set can be iterated.
Orderings(S) ==
    { o \in [1..Cardinality(S) -> S] :
        \A i, j \in 1..Cardinality(S) : i /= j => o[i] /= o[j] }

\* s without the element x (set.remove keeps the order of the others).
RECURSIVE Without(_, _)
Without(s, x) ==
    IF s = <<>> THEN <<>>
    ELSE IF Head(s) = x THEN Without(Tail(s), x)
    ELSE << Head(s) >> \o Without(Tail(s), x)

\* d[k] = v of a dict.
DictSet(d, k, v) == [x \in DOMAIN d \cup {k} |-> IF x = k THEN v ELSE d[x]]

\* d.get(k, default)
DictGet(d, k, default) == IF k \in DOMAIN d THEN d[k] ELSE default

\* start.py:648-651: the state on entry to the while loop. pending is kept
\* as the set's elements in its iteration order; time is counted from
\* start_time and passes in the status requests and in the sleeps.
WaitInit ==
    /\ ids \in IdLists
    /\ timeout \in Timeouts
    /\ status_script \in [IdSet(ids) -> StatusScripts]
    /\ pending \in Orderings(IdSet(ids))
    /\ polls = [i \in IdSet(ids) |-> 0]
    /\ wpc = "loop"
    /\ now = 0
    /\ elapsed = 0
    /\ sweep = <<>>
    /\ details = <<>>
    /\ last_log_time = <<>>
    /\ wait_events = <<>>
    /\ wait_result = <<>>
    /\ CreateIdle
    /\ MappingIdle
    /\ ValidateIdle
    /\ MainIdle
    /\ FilterIdle
    /\ ClassifyIdle
    /\ SummaryIdle
    /\ SetupIdle

\* The answer to the next status request for the instance.
NextStatus(i) ==
    IF polls[i] < status_script[i].first_polls
    THEN status_script[i].first ELSE status_script[i].rest

StatusRequest(i) == [op |-> "get_status", instance_id |-> i, response |-> NextStatus(i)]

\* The clock when the status request for the instance has come back.
AfterRequest(i) == now + status_script[i].latency

\* start.py:653-655: the loop condition holds; a sweep over list(pending) begins.
BeginSweep ==
    /\ wpc = "loop"
    /\ pending /= <<>>
    /\ now < timeout
    /\ elapsed' = now
    /\ sweep' = pending
    /\ wpc' = "sweep"
    /\ UNCHANGED << summary_vars, setup_vars, create_vars, mapping_vars, validate_vars, main_vars, filter_vars, classify_vars, ids, timeout,
                    status_script, now, pending, polls, details, last_log_time,
                    wait_events, wait_result >>

\* start.py:673-676, 679-682: the throttled log line.
ThrottledLog(i, line) ==
    IF elapsed - DictGet(last_log_time, i, 0) >= StatusLogInterval
       \/ DictGet(last_log_time, i, 0) = 0
    THEN /\ wait_events' = wait_events \o << StatusRequest(i),
                [op |-> "print", instance_id |-> i, line |-> line, elapsed |-> elapsed] >>
         /\ last_log_time' = DictSet(last_log_time, i, elapsed)
    ELSE /\ wait_events' = Append(wait_events, StatusRequest(i))
         /\ UNCHANGED last_log_time

\* Variant of PollActive: the active instance stays in pending.
PollActiveStaysPending ==
    /\ wpc = "sweep"
    /\ sweep /= <<>>
    /\ NextStatus(Head(sweep)).kind = "status"
    /\ NextStatus(Head(sweep)).status = "active"
    /\ details' = DictSet(details, Head(sweep),
                          [ip |-> NextStatus(Head(sweep)).ip,
                           hostname |-> NextStatus(Head(sweep)).hostname,
                           status |-> "active"])
    /\ pending' = pending
    /\ wait_events' = wait_events \o << StatusRequest(Head(sweep)),
            [op |-> "print", instance_id |-> Head(sweep), line |-> "is ready",
             elapsed |-> elapsed] >>
    /\ polls' = [polls EXCEPT ![Head(sweep)] = @ + 1]
    /\ now' = AfterRequest(Head(sweep))
    /\ sweep' = Tail(sweep)
    /\ UNCHANGED << summary_vars, setup_vars, create_vars, mapping_vars, validate_vars, main_vars, filter_vars, classify_vars, ids, timeout,
                    status_script, elapsed, last_log_time, wpc, wait_result >>

\* Variant of PollActive: a status line is logged before the ready line.
PollActiveLogsStatusToo ==
    /\ wpc = "sweep"
    /\ sweep /= <<>>
    /\ NextStatus(Head(sweep)).kind = "status"
    /\ NextStatus(Head(sweep)).status = "active"
    /\ details' = DictSet(details, Head(sweep),
                          [ip |-> NextStatus(Head(sweep)).ip,
                           hostname |-> NextStatus(Head(sweep)).hostname,
                           status |-> "active"])
    /\ pending' = Without(pending, Head(sweep))
    /\ wait_events' = wait_events \o << StatusRequest(Head(sweep)),
            [op |-> "print", instance_id |-> Head(sweep), line |-> "active",
             elapsed |-> elapsed],
            [op |-> "print", instance_id |-> Head(sweep), line |-> "is ready",
             elapsed |-> elapsed] >>
    /\ polls' = [polls EXCEPT ![Head(sweep)] = @ + 1]
    /\ now' = AfterRequest(Head(sweep))
    /\ sweep' = Tail(sweep)
    /\ UNCHANGED << summary_vars, setup_vars, create_vars, mapping_vars, validate_vars, main_vars, filter_vars, classify_vars, ids, timeout,
                    status_script, elapsed, last_log_time, wpc, wait_result >>

\* start.py:661-668: the instance is active.
PollActive ==
    /\ wpc = "sweep"
    /\ sweep /= <<>>
    /\ NextStatus(Head(sweep)).kind = "status"
    /\ NextStatus(Head(sweep)).status = "active"
    /\ details' = DictSet(details, Head(sweep),
                          [ip |-> NextStatus(Head(sweep)).ip,
                           hostname |-> NextStatus(Head(sweep)).hostname,
                           status |-> "active"])
    /\ pending' = Without(pending, Head(sweep))
    /\ wait_events' = wait_events \o << StatusRequest(Head(sweep)),
            [op |-> "print", instance_id |-> Head(sweep), line |-> "is ready",
             elapsed |-> elapsed] >>
    /\ polls' = [polls EXCEPT ![Head(sweep)] = @ + 1]
    /\ now' = AfterRequest(Head(sweep))
    /\ sweep' = Tail(sweep)
    /\ UNCHANGED << summary_vars, setup_vars, create_vars, mapping_vars, validate_vars, main_vars, filter_vars, classify_vars, ids, timeout,
                    status_script, elapsed, last_log_time, wpc, wait_result >>

\* Variant of PollTerminated: the dead instance is dropped from pending and
\* the sweep goes on.
PollTerminatedDeferred ==
    /\ wpc = "sweep"
    /\ sweep /= <<>>
    /\ NextStatus(Head(sweep)).kind = "status"
    /\ NextStatus(Head(sweep)).status \in {"terminated", "terminating"}
    /\ pending' = Without(pending, Head(sweep))
    /\ wait_events' = Append(wait_events, StatusRequest(Head(sweep)))
    /\ polls' = [polls EXCEPT ![Head(sweep)] = @ + 1]
    /\ now' = AfterRequest(Head(sweep))
    /\ sweep' = Tail(sweep)
    /\ UNCHANGED << summary_vars, setup_vars, create_vars, mapping_vars, validate_vars, main_vars, filter_vars, classify_vars, ids, timeout,
                    status_script, elapsed, details, last_log_time, wpc,
                    wait_result >>

\* start.py:669-670: the instance is terminated or terminating; RuntimeError
\* leaves the function (the except clause only catches requests.HTTPError).
PollTerminated ==
    /\ wpc = "sweep"
    /\ sweep /= <<>>
    /\ NextStatus(Head(sweep)).kind = "status"
    /\ NextStatus(Head(sweep)).status \in {"terminated", "terminating"}
    /\ wait_events' = Append(wait_events, StatusRequest(Head(sweep)))
    /\ polls' = [polls EXCEPT ![Head(sweep)] = @ + 1]
    /\ now' = AfterRequest(Head(sweep))
    /\ wait_result' = [kind |-> "raise", exc |-> "RuntimeError",
                       instance_id |-> Head(sweep)]
    /\ wpc' = "raised"
    /\ UNCHANGED << summary_vars, setup_vars, create_vars, mapping_vars, validate_vars, main_vars, filter_vars, classify_vars, ids, timeout,
                    status_script, elapsed, pending, sweep, details,
                    last_log_time >>

\* start.py:671-676: any other status.
PollOtherStatus ==
    /\ wpc = "sweep"
    /\ sweep /= <<>>
    /\ NextStatus(Head(sweep)).kind = "status"
    /\ NextStatus(Head(sweep)).status \notin {"active", "terminated", "terminating"}
    /\ ThrottledLog(Head(sweep), NextStatus(Head(sweep)).status)
    /\ polls' = [polls EXCEPT ![Head(sweep)] = @ + 1]
    /\ now' = AfterRequest(Head(sweep))
    /\ sweep' = Tail(sweep)
    /\ UNCHANGED << summary_vars, setup_vars, create_vars, mapping_vars, validate_vars, main_vars, filter_vars, classify_vars, ids, timeout,
                    status_script, elapsed, pending, details, wpc,
                    wait_result >>

\* Variant of PollNotFound: a 404 is re-raised like any other HTTP error.
PollNotFoundRaises ==
    /\ wpc = "sweep"
    /\ sweep /= <<>>
    /\ NextStatus(Head(sweep)).kind = "http_error"
    /\ NextStatus(Head(sweep)).status_code = 404
    /\ wait_events' = Append(wait_events, StatusRequest(Head(sweep)))
    /\ polls' = [polls EXCEPT ![Head(sweep)] = @ + 1]
    /\ now' = AfterRequest(Head(sweep))
    /\ wait_result' = [kind |-> "raise", exc |-> "HTTPError",
                       instance_id |-> Head(sweep)]
    /\ wpc' = "raised"
    /\ UNCHANGED << summary_vars, setup_vars, create_vars, mapping_vars, validate_vars, main_vars, filter_vars, classify_vars, ids, timeout,
                    status_script, elapsed, pending, sweep, details,
                    last_log_time >>

\* start.py:677-682: the request failed with 404.
PollNotFound ==
    /\ wpc = "sweep"
    /\ sweep /= <<>>
    /\ NextStatus(Head(sweep)).kind = "http_error"
    /\ NextStatus(Head(sweep)).status_code = 404
    /\ ThrottledLog(Head(sweep), "not found yet")
    /\ polls' = [polls EXCEPT ![Head(sweep)] = @ + 1]
    /\ now' = AfterRequest(Head(sweep))
    /\ sweep' = Tail(sweep)
    /\ UNCHANGED << summary_vars, setup_vars, create_vars, mapping_vars, validate_vars, main_vars, filter_vars, classify_vars, ids, timeout,
                    status_script, elapsed, pending, details, wpc,
                    wait_result >>

\* start.py:683-684: any other HTTP error is re-raised.
PollHTTPError ==
    /\ wpc = "sweep"
    /\ sweep /= <<>>
    /\ NextStatus(Head(sweep)).kind = "http_error"
    /\ NextStatus(Head(sweep)).status_code /= 404
    /\ wait_events' = Append(wait_events, StatusRequest(Head(sweep)))
    /\ polls' = [polls EXCEPT ![Head(sweep)] = @ + 1]
    /\ now' = AfterRequest(Head(sweep))
    /\ wait_result' = [kind |-> "raise", exc |-> "HTTPError",
                       instance_id |-> Head(sweep)]
    /\ wpc' = "raised"
    /\ UNCHANGED << summary_vars, setup_vars, create_vars, mapping_vars, validate_vars, main_vars, filter_vars, classify_vars, ids, timeout,
                    status_script, elapsed, pending, sweep, details,
                    last_log_time >>

\* Variant of EndSweep: the sleep does not depend on pending.
EndSweepAlwaysSleeps ==
    /\ wpc = "sweep"
    /\ sweep = <<>>
    /\ wait_events' = Append(wait_events,
            [op |-> "sleep", seconds |-> INSTANCE_POLL_INTERVAL])
    /\ now' = now + INSTANCE_POLL_INTERVAL
    /\ wpc' = "loop"
    /\ UNCHANGED << summary_vars, setup_vars, create_vars, mapping_vars, validate_vars, main_vars, filter_vars, classify_vars, ids, timeout,
                    status_script, elapsed, pending, sweep, polls, details,
                    last_log_time, wait_result >>

\* start.py:686-687: the sweep is over; sleep if something is still pending.
EndSweep ==
    /\ wpc = "sweep"
    /\ sweep = <<>>
    /\ IF pending /= <<>>
       THEN /\ wait_events' = Append(wait_events,
                    [op |-> "sleep", seconds |-> INSTANCE_POLL_INTERVAL])
            /\ now' = now + INSTANCE_POLL_INTERVAL
       ELSE UNCHANGED << wait_events, now >>
    /\ wpc' = "loop"
    /\ UNCHANGED << summary_vars, setup_vars, create_vars, mapping_vars, validate_vars, main_vars, filter_vars, classify_vars, ids, timeout,
                    status_script, elapsed, pending, sweep, polls, details,
                    last_log_time, wait_result >>

\* Variant of WaitTimeout: the error names every requested instance.
WaitTimeoutNamesAll ==
    /\ wpc = "loop"
    /\ pending /= <<>>
    /\ ~(now < timeout)
    /\ elapsed' = now
    /\ wait_result' = [kind |-> "raise", exc |-> "TimeoutError",
                       pending |-> IdSet(ids)]
    /\ wpc' = "raised"
    /\ UNCHANGED << summary_vars, setup_vars, create_vars, mapping_vars, validate_vars, main_vars, filter_vars, classify_vars, ids, timeout,
                    status_script, now, pending, sweep, polls, details,
                    last_log_time, wait_events >>

\* start.py:689-691: the loop ended with instances still pending.
WaitTimeout ==
    /\ wpc = "loop"
    /\ pending /= <<>>
    /\ ~(now < timeout)
    /\ elapsed' = now
    /\ wait_result' = [kind |-> "raise", exc |-> "TimeoutError",
                       pending |-> IdSet(pending)]
    /\ wpc' = "raised"
    /\ UNCHANGED << summary_vars, setup_vars, create_vars, mapping_vars, validate_vars, main_vars, filter_vars, classify_vars, ids, timeout,
                    status_script, now, pending, sweep, polls, details,
                    last_log_time, wait_events >>

\* start.py:693: nothing is pending.
WaitReturn ==
    /\ wpc = "loop"
    /\ pending = <<>>
    /\ wait_result' = [kind |-> "return", value |-> details]
    /\ wpc' = "returned"
    /\ UNCHANGED << summary_vars, setup_vars, create_vars, mapping_vars, validate_vars, main_vars, filter_vars, classify_vars, ids, timeout,
                    status_script, now, elapsed, pending, sweep, polls, details,
                    last_log_time, wait_events >>

WaitNext ==
    \/ BeginSweep
    \/ PollActive
    \/ PollTerminated
    \/ PollOtherStatus
    \/ PollNotFound
    \/ PollHTTPError
    \/ EndSweep
    \/ WaitTimeout
    \/ WaitReturn

SpecWait == WaitInit /\ [][WaitNext]_vars

\* ------------------------------------------------------------------ C20
\* The status requests answered "terminated" or "terminating".
TerminatedPolls ==
    { n \in DOMAIN wait_events :
        /\ wait_events[n].op = "get_status"
        /\ wait_events[n].response.kind = "status"
        /\ wait_events[n].response.status \in {"terminated", "terminating"} }

\* C20: a status request answered "terminated" or "terminating" is the last
\* thing wait_until_ready does (no further request, log line or sleep): the
\* call has raised RuntimeError naming that instance, whatever the state of
\* the other instances, and returns no details.
C20_TerminatedRaisesAtOnce ==
    \A n \in TerminatedPolls :
        /\ n = Len(wait_events)
        /\ wpc = "raised"
        /\ wait_result = [kind |-> "raise", exc |-> "RuntimeError",
                          instance_id |-> wait_events[n].instance_id]

\* The first instance of a sweep of two was found terminated while the other,
\* still pending, had not been polled in that sweep.
C20_Witness ==
    /\ TerminatedPolls /= {}
    /\ wpc = "raised"
    /\ Len(pending) = 2
    /\ Len(sweep) = 2
    /\ polls[Head(sweep)] >= 1
    /\ wait_result.exc = "RuntimeError"
    /\ wait_result.instance_id = Head(sweep)

\* ------------------------------------------------------------------ C21
\* The status requests made so far, and those of instance i.
StatusPolls == { n \in DOMAIN wait_events : wait_events[n].op = "get_status" }

PollsOf(i) == { n \in StatusPolls : wait_events[n].instance_id = i }

\* The sweep an event belongs to: sweeps are separated by the sleeps.
SweepOf(n) ==
    Cardinality({ m \in 1..n : wait_events[m].op = "sleep" })

\* The step is a status request for the head of the sweep.
PollStep == wpc = "sweep" /\ sweep /= <<>> /\ polls' /= polls

\* Instances whose latest answer was a 404.
LastAnswerNotFound ==
    { i \in IdSet(ids) :
        \E n \in PollsOf(i) :
            /\ \A m \in PollsOf(i) : m <= n
            /\ wait_events[n].response = HTTPErrorResponse(404) }

\* C21: a 404 answer for a pending instance changes neither pending, details
\* nor the result, and the sweep goes on with the instances after it; the
\* next sweep covers every pending instance, so the instance is polled again;
\* an instance whose latest answer was a 404 is pending and has no details;
\* any other HTTP error ends the call with that error.
C21_NotFoundKeepsInstancePending ==
    [][ /\ (PollStep /\ NextStatus(Head(sweep)) = HTTPErrorResponse(404)) =>
            /\ pending' = pending
            /\ details' = details
            /\ wait_result' = wait_result
            /\ wpc' = "sweep"
            /\ sweep' = Tail(sweep)
        /\ (wpc = "loop" /\ wpc' = "sweep") => sweep' = pending
        /\ \A i \in LastAnswerNotFound' :
            /\ \E n \in DOMAIN pending' : pending'[n] = i
            /\ i \notin DOMAIN details'
        /\ (PollStep /\ NextStatus(Head(sweep)).kind = "http_error"
                     /\ NextStatus(Head(sweep)).status_code /= 404) =>
            /\ wpc' = "raised"
            /\ wait_result' = [kind |-> "raise", exc |-> "HTTPError",
                               instance_id |-> Head(sweep)]
      ]_vars

\* Instance i answered 404, the other instance was polled after it in the
\* same sweep, and i was polled again in the next sweep.
C21_Witness ==
    \E i \in IdSet(ids) : \E n, k \in PollsOf(i) : \E m \in StatusPolls :
        /\ wait_events[n].response = HTTPErrorResponse(404)
        /\ wait_events[m].instance_id /= i
        /\ m > n
        /\ SweepOf(m) = SweepOf(n)
        /\ SweepOf(k) = SweepOf(n) + 1

\* ------------------------------------------------------------------ C22
\* The instances an "active" answer has been received for.
SeenActive ==
    { i \in IdSet(ids) :
        \E n \in PollsOf(i) : /\ wait_events[n].response.kind = "status"
                              /\ wait_events[n].response.status = "active" }

NumSleeps == Cardinality({ n \in DOMAIN wait_events : wait_events[n].op = "sleep" })

\* C22: the call ends with TimeoutError only once the timeout has elapsed
\* with instances pending; the error names exactly the instances still
\* pending then, which are those not seen active; nothing is returned with
\* an instance pending, and no terminate call is among the effects.
C22_TimeoutNamesPendingSet ==
    /\ (wpc = "raised" /\ wait_result.exc = "TimeoutError") =>
        /\ wait_result.pending = IdSet(ids) \ SeenActive
        /\ wait_result.pending = IdSet(pending)
        /\ wait_result.pending /= {}
        /\ now >= timeout
    /\ wpc = "returned" => pending = <<>>
    /\ \A n \in DOMAIN wait_events :
            wait_events[n].op \in {"get_status", "print", "sleep"}

\* Of two instances one became active and the other was still pending when
\* the timeout elapsed, the time of the requests included: the seconds slept
\* alone do not reach the timeout.
C22_Witness ==
    /\ wpc = "raised"
    /\ wait_result.exc = "TimeoutError"
    /\ Cardinality(IdSet(ids)) = 2
    /\ Cardinality(wait_result.pending) = 1
    /\ Cardinality(SeenActive) = 1
    /\ NumSleeps >= 1
    /\ NumSleeps * INSTANCE_POLL_INTERVAL < timeout

\* ------------------------------------------------------------------ C23
\* The instances seen active in a sweep before sweep k.
ActiveBefore(k) ==
    { i \in IdSet(ids) :
        \E n \in PollsOf(i) : /\ wait_events[n].response.kind = "status"
                              /\ wait_events[n].response.status = "active"
                              /\ SweepOf(n) < k }

PollsInSweep(i, k) == { n \in PollsOf(i) : SweepOf(n) = k }

\* C23: a finished sweep has queried each instance pending at its start
\* exactly once and no instance twice; a sleep of the fixed interval follows
\* a sweep exactly when the sweep leaves instances pending (one sleep per
\* sweep, none after the sweep that made the last instance ready).
C23_OneQueryPerPendingInstanceOneSleepPerSweep ==
    /\ \A k \in 0..NumSleeps : \A i \in IdSet(ids) :
        /\ Cardinality(PollsInSweep(i, k)) <= 1
        /\ i \in ActiveBefore(k) => PollsInSweep(i, k) = {}
        /\ (k < NumSleeps /\ i \notin ActiveBefore(k)) =>
                Cardinality(PollsInSweep(i, k)) = 1
    /\ \A n \in DOMAIN wait_events :
        wait_events[n].op = "sleep" =>
            /\ wait_events[n].seconds = INSTANCE_POLL_INTERVAL
            /\ n > 1
            /\ wait_events[n - 1].op /= "sleep"
            /\ ActiveBefore(SweepOf(n)) /= IdSet(ids)
    /\ (wpc = "loop" /\ wait_events /= <<>>) =>
            (wait_events[Len(wait_events)].op = "sleep" <=> pending /= <<>>)
    /\ wpc = "returned" =>
            (wait_events /= <<>> => wait_events[Len(wait_events)].op /= "sleep")

\* Two instances were both queried in two sweeps with one sleep in between,
\* and the call returned after the second sweep.
C23_Witness ==
    /\ wpc = "returned"
    /\ NumSleeps = 1
    /\ Cardinality(IdSet(ids)) = 2
    /\ \A i \in IdSet(ids) :
        Cardinality(PollsInSweep(i, 0)) = 1 /\ Cardinality(PollsInSweep(i, 1)) = 1

\* ------------------------------------------------------------------ C24
\* The status lines ("status: ..." and "not found yet") logged for instance i.
StatusLines(i) ==
    { n \in DOMAIN wait_events :
        /\ wait_events[n].op = "print"
        /\ wait_events[n].instance_id = i
        /\ wait_events[n].line /= "is ready" }

\* C24: the first answer that leaves an instance pending is logged, and two
\* lines reporting the same status for the same instance are at least
\* StatusLogInterval seconds of elapsed time apart.
C24_StatusLinesThrottled ==
    \A i \in IdSet(ids) :
        /\ \A n \in PollsOf(i) :
            ( /\ \A m \in PollsOf(i) : m >= n
              /\ wait_events[n].response \in TransientResponses )
            => (n + 1) \in StatusLines(i)
        /\ \A n, m \in StatusLines(i) :
            (n < m /\ wait_events[n].line = wait_events[m].line) =>
                wait_events[m].elapsed - wait_events[n].elapsed >= StatusLogInterval

\* ------------------------------------------------------------------ C25
\* The answers given for instance i so far, in order.
RECURSIVE AnswersUpTo(_, _)
AnswersUpTo(i, n) ==
    IF n = 0 THEN <<>>
    ELSE AnswersUpTo(i, n - 1)
         \o (IF n \in PollsOf(i) THEN << wait_events[n].response >> ELSE <<>>)

PrintsOf(i) == { n \in DOMAIN wait_events :
                    wait_events[n].op = "print" /\ wait_events[n].instance_id = i }

\* C25: an instance answered "booting" and then "active" was queried in two
\* consecutive sweeps, is out of pending with the ip and hostname of the
\* active answer, and has exactly one "is ready" line (after one "booting"
\* line for its first observation); alone, it makes the call return after
\* those two sweeps and one sleep.
C25_BootingThenActiveReturnsAfterTwoSweeps ==
    \A i \in IdSet(ids) :
        ( /\ Len(AnswersUpTo(i, Len(wait_events))) = 2
          /\ AnswersUpTo(i, Len(wait_events))[1].kind = "status"
          /\ AnswersUpTo(i, Len(wait_events))[1].status = "booting"
          /\ AnswersUpTo(i, Len(wait_events))[2].kind = "status"
          /\ AnswersUpTo(i, Len(wait_events))[2].status = "active" ) =>
            /\ \E n, m \in PollsOf(i) : SweepOf(m) = SweepOf(n) + 1
            /\ i \in DOMAIN details
            /\ details[i].ip = AnswersUpTo(i, Len(wait_events))[2].ip
            /\ details[i].hostname = AnswersUpTo(i, Len(wait_events))[2].hostname
            /\ \A n \in DOMAIN pending : pending[n] /= i
            /\ Cardinality({ n \in PrintsOf(i) : wait_events[n].line = "is ready" }) = 1
            /\ Cardinality(PrintsOf(i)) = 2
            /\ (IdSet(ids) = {i} /\ wpc \in {"loop", "returned"}) =>
                /\ NumSleeps = 1
                /\ Len(wait_events) = 5
                /\ wpc = "returned" => wait_result = [kind |-> "return", value |-> details]

\* A single instance answered "booting", then "active" with an address, and
\* the call returned that address.
C25_Witness ==
    /\ wpc = "returned"
    /\ ids = <<1>>
    /\ Len(AnswersUpTo(1, Len(wait_events))) = 2
    /\ AnswersUpTo(1, Len(wait_events))[1] = StatusResponse("booting", <<>>, <<>>)
    /\ wait_result.value[1].ip = <<"10.0.0.1">>

\* ------------------------------------------------------------------ C26
\* C26: an instance is taken out of pending and put into the result only on
\* an active answer that carries an address; an active answer without an
\* address leaves the instance pending.
C26_ReadyOnlyWithAddress ==
    /\ \A i \in DOMAIN details : details[i].ip /= <<>>
    /\ \A n \in StatusPolls :
        ( /\ wait_events[n].response.kind = "status"
          /\ wait_events[n].response.status = "active"
          /\ wait_events[n].response.ip = <<>> )
        => wait_events[n].instance_id \notin DOMAIN details

\* ======================================================================
\* format_launch_summary on its own (annotations.py:67-119)
\* ======================================================================
MaxSummaryAttempts == 2

\* annotations.py:106: the error text of an "other" row is cut to this length.
ErrorTextLimit == 30

\* Error payloads of failed launch calls:
\*   code 'insufficient-capacity', message 'Not enough capacity'
\*   code 'insufficient-capacity', message 'Bad request'
\*   code 'no_capacity', message ''
\*   code 'rate-limit', message 'Rate limited'
\*   code 'too many requests', message 'Bad request'
\*   code 'quota-exceeded', message 'Quota exceeded'
\*   code 'invalid_ssh_key', message 'Failed to generate key'
\*   code 'invalid-region', message 'Region eu-north-9 is not a valid region name'
SummaryPayloads ==
    { [error |-> << [code |-> << <<"i", "n", "s", "u", "f", "f", "i", "c", "i", "e", "n", "t", "-", "c", "a", "p", "a", "c", "i", "t", "y">> >>, message |-> << <<"N", "o", "t", " ", "e", "n", "o", "u", "g", "h", " ", "c", "a", "p", "a", "c", "i", "t", "y">> >>, retry_after |-> <<>>] >>],
      [error |-> << [code |-> << <<"i", "n", "s", "u", "f", "f", "i", "c", "i", "e", "n", "t", "-", "c", "a", "p", "a", "c", "i", "t", "y">> >>, message |-> << <<"B", "a", "d", " ", "r", "e", "q", "u", "e", "s", "t">> >>, retry_after |-> <<>>] >>],
      [error |-> << [code |-> << <<"n", "o", "_", "c", "a", "p", "a", "c", "i", "t", "y">> >>, message |-> << <<>> >>, retry_after |-> <<>>] >>],
      [error |-> << [code |-> << <<"r", "a", "t", "e", "-", "l", "i", "m", "i", "t">> >>, message |-> << <<"R", "a", "t", "e", " ", "l", "i", "m", "i", "t", "e", "d">> >>, retry_after |-> <<>>] >>],
      [error |-> << [code |-> << <<"t", "o", "o", " ", "m", "a", "n", "y", " ", "r", "e", "q", "u", "e", "s", "t", "s">> >>, message |-> << <<"B", "a", "d", " ", "r", "e", "q", "u", "e", "s", "t">> >>, retry_after |-> <<>>] >>],
      [error |-> << [code |-> << <<"q", "u", "o", "t", "a", "-", "e", "x", "c", "e", "e", "d", "e", "d">> >>, message |-> << <<"Q", "u", "o", "t", "a", " ", "e", "x", "c", "e", "e", "d", "e", "d">> >>, retry_after |-> <<>>] >>],
      [error |-> << [code |-> << <<"i", "n", "v", "a", "l", "i", "d", "_", "s", "s", "h", "_", "k", "e", "y">> >>, message |-> << <<"F", "a", "i", "l", "e", "d", " ", "t", "o", " ", "g", "e", "n", "e", "r", "a", "t", "e", " ", "k", "e", "y">> >>, retry_after |-> <<>>] >>],
      [error |-> << [code |-> << <<"i", "n", "v", "a", "l", "i", "d", "-", "r", "e", "g", "i", "o", "n">> >>, message |-> << <<"R", "e", "g", "i", "o", "n", " ", "e", "u", "-", "n", "o", "r", "t", "h", "-", "9", " ", "i", "s", " ", "n", "o", "t", " ", "a", " ", "v", "a", "l", "i", "d", " ", "r", "e", "g", "i", "o", "n", " ", "n", "a", "m", "e">> >>, retry_after |-> <<>>] >>] }

\* start.py:406: the error text of the entries of the availability pre-check.
PreCheckText == <<"N", "o", " ", "c", "a", "p", "a", "c", "i", "t", "y", " ", "(", "p", "r", "e", "-", "c", "h", "e", "c", "k", ")">>

\* The ledger entry of a launch call together with how the call ended.
\* start.py:446-452: success. start.py:461, 474, 489: a classified failure,
\* whose error text is str(e), the message of the exception
\* classify_api_error built. start.py:402-407: a pre-check entry.
SummaryOutcomes ==
    { [kind |-> "ok",
       entry |-> [instance_type |-> "t1", region |-> "r1", attempt |-> 1,
                  success |-> TRUE, error |-> <<>>, instance_id |-> 1]] }
    \cup
    { [kind |-> classify_api_error(p).kind,
       entry |-> [instance_type |-> "t1", region |-> "r2", attempt |-> 1,
                  success |-> FALSE, error |-> classify_api_error(p).message,
                  instance_id |-> 0]] : p \in SummaryPayloads }
    \cup
    { [kind |-> "pre-check",
       entry |-> [instance_type |-> "t2", region |-> "r1", attempt |-> 0,
                  success |-> FALSE, error |-> PreCheckText, instance_id |-> 0]] }

Min(a, b) == IF a <= b THEN a ELSE b

\* annotations.py:98-108: the row of one attempt (number, type, region and
\* result cell; the result cell is its marker and, for the last case, the
\* first ErrorTextLimit characters of the error).
SummaryRow(n, entry) ==
    [number |-> n, instance_type |-> entry.instance_type, region |-> entry.region,
     result |->
        IF entry.success THEN [class |-> "Launched", text |-> <<>>]
        ELSE IF Contains(lower(entry.error), WordCapacity)
        THEN [class |-> "No capacity", text |-> <<>>]
        ELSE IF Contains(lower(entry.error), WordRate)
        THEN [class |-> "Rate limited", text |-> <<>>]
        ELSE [class |-> "Other",
              text |-> SubSeq(entry.error, 1, Min(ErrorTextLimit, Len(entry.error)))]]

\* annotations.py:67-119: the table rows and the footer.
format_launch_summary(attempts, success, first_id, ip) ==
    [rows |-> [n \in DOMAIN attempts |-> SummaryRow(n, attempts[n])],
     footer |-> IF success
                THEN [kind |-> "success", instance_id |-> first_id,
                      ip |-> ip]
                ELSE [kind |-> "exhausted", instance_id |-> 0, ip |-> <<>>]]

SummaryInit ==
    /\ summary_args \in
        [outcomes : UNION { [1..n -> SummaryOutcomes] : n \in 0..MaxSummaryAttempts },
         success : BOOLEAN,
         ip : { <<>>, <<"10.0.0.1">> }]
    /\ summary_result = <<>>
    /\ CreateIdle
    /\ MappingIdle
    /\ ValidateIdle
    /\ MainIdle
    /\ FilterIdle
    /\ ClassifyIdle
    /\ WaitIdle
    /\ SetupIdle

\* The ledger handed to format_launch_summary.
SummaryAttempts == [n \in DOMAIN summary_args.outcomes |-> summary_args.outcomes[n].entry]

\* One call; summary_result holds the rendered summary.
SummaryCall ==
    /\ summary_args /= <<>>
    /\ summary_result = <<>>
    /\ summary_result' = << format_launch_summary(SummaryAttempts,
                                summary_args.success, 1, summary_args.ip) >>
    /\ UNCHANGED << summary_args, setup_vars, create_vars, mapping_vars, validate_vars, main_vars, filter_vars,
                    classify_vars, wait_vars >>

SummaryNext == SummaryCall

SpecSummary == SummaryInit /\ [][SummaryNext]_vars

\* ------------------------------------------------------------------ C29
\* The row class an attempt's outcome stands for.
ClassOfOutcome(kind) ==
    IF kind = "ok" THEN "Launched"
    ELSE IF kind \in {"CapacityError", "pre-check"} THEN "No capacity"
    ELSE IF kind = "RateLimitError" THEN "Rate limited"
    ELSE "Other"

\* The summary has one row per attempt, in ledger order, and the footer of
\* the success flag.
C29_RowsAndFooter ==
    /\ Len(summary_result[1].rows) = Len(summary_args.outcomes)
    /\ \A n \in DOMAIN summary_args.outcomes :
        /\ summary_result[1].rows[n].number = n
        /\ summary_result[1].rows[n].instance_type =
                summary_args.outcomes[n].entry.instance_type
        /\ summary_result[1].rows[n].region = summary_args.outcomes[n].entry.region
    /\ summary_result[1].footer.kind =
            IF summary_args.success THEN "success" ELSE "exhausted"

\* C29: format_launch_summary renders one row per LaunchAttempt in ledger
\* order, each row's class is the one of the attempt's outcome (launched,
\* no capacity for a Capacity failure, rate limited for a RateLimit failure,
\* other for the rest), and the footer follows the success flag.
C29_RowClassMatchesOutcome ==
    summary_result /= <<>> =>
        /\ C29_RowsAndFooter
        /\ \A n \in DOMAIN summary_args.outcomes :
            summary_result[1].rows[n].result.class =
                ClassOfOutcome(summary_args.outcomes[n].kind)

\* ======================================================================
\* execute_setup_via_ssh on its own (start.py:711-870)
\* ======================================================================
MaxSshRetries == 2

\* start.py:718: the default of retry_delay, the value __main__ runs with.
SshRetryDelays == { 10 }

\* start.py:792-798
scripts_to_copy ==
    << "runner-setup.sh", "check-runner-termination.sh", "job-started-hook.sh",
       "job-completed-hook.sh", "shared-functions.sh" >>

\* How the "ssh ... echo SSH ready" probe can end (start.py:771-784): return
\* code 0, another return code, subprocess.TimeoutExpired, another exception.
ConnectOutcomes == { "ok", "nonzero", "timeout", "exception" }

\* How the later subprocess.run calls can end: return code 0, another return
\* code, or an exception of subprocess.run itself.
CommandOutcomes == { "ok", "nonzero", "exception" }

SetupInit ==
    /\ setup_args \in [max_retries : 1..MaxSshRetries,
                       retry_delay : SshRetryDelays,
                       ssh_private_key : BOOLEAN]
    /\ spc = "key"
    /\ attempt = 1
    /\ copied = 0
    /\ ssh_events = <<>>
    /\ setup_result = <<>>
    /\ CreateIdle
    /\ MappingIdle
    /\ ValidateIdle
    /\ MainIdle
    /\ FilterIdle
    /\ ClassifyIdle
    /\ WaitIdle
    /\ SummaryIdle

\* A subprocess.run call of the function.
Command(step, target, outcome) ==
    [op |-> "run", step |-> step, target |-> target, outcome |-> outcome,
     identity_file |-> setup_args.ssh_private_key]

\* The step's RuntimeError, or the exception of subprocess.run passing through.
SetupFailure(step, outcome) ==
    [kind |-> "raise",
     exc |-> IF outcome = "nonzero" THEN "RuntimeError" ELSE "Exception",
     step |-> step]

\* start.py:748-757: the private key, if any, goes to a temporary file.
PrepareKey ==
    /\ spc = "key"
    /\ ssh_events' = IF setup_args.ssh_private_key
                     THEN Append(ssh_events, [op |-> "write_key_file"])
                     ELSE ssh_events
    /\ spc' = "connect"
    /\ UNCHANGED << setup_args, attempt, copied, setup_result, summary_vars,
                    create_vars, mapping_vars, validate_vars, main_vars, filter_vars, classify_vars, wait_vars >>

\* start.py:769-789: one round of the connection loop.
Connect ==
    /\ spc = "connect"
    /\ \E outcome \in ConnectOutcomes :
        IF outcome = "ok"
        THEN /\ ssh_events' = Append(ssh_events, Command("connect", attempt, outcome))
             /\ spc' = "mkdir"
             /\ UNCHANGED << attempt, setup_result >>
        ELSE IF attempt < setup_args.max_retries
        THEN /\ ssh_events' = ssh_events \o
                    << Command("connect", attempt, outcome),
                       [op |-> "sleep", seconds |-> setup_args.retry_delay] >>
             /\ attempt' = attempt + 1
             /\ UNCHANGED << spc, setup_result >>
        ELSE /\ ssh_events' = Append(ssh_events, Command("connect", attempt, outcome))
             /\ setup_result' = [kind |-> "raise", exc |-> "RuntimeError",
                                 step |-> "connect"]
             /\ spc' = "raised"
             /\ UNCHANGED attempt
    /\ UNCHANGED << setup_args, copied, summary_vars, create_vars, mapping_vars, validate_vars, main_vars, filter_vars,
                    classify_vars, wait_vars >>

\* start.py:805-813: mkdir -p /tmp/lambda-gha-scripts
MakeScriptsDir ==
    /\ spc = "mkdir"
    /\ \E outcome \in CommandOutcomes :
        /\ ssh_events' = Append(ssh_events, Command("mkdir", "", outcome))
        /\ IF outcome = "ok"
           THEN spc' = "copy" /\ UNCHANGED setup_result
           ELSE spc' = "raised" /\ setup_result' = SetupFailure("mkdir", outcome)
    /\ UNCHANGED << setup_args, attempt, copied, summary_vars, create_vars, mapping_vars, validate_vars, main_vars,
                    filter_vars, classify_vars, wait_vars >>

\* Variant of CopyScript: the return code of scp is not looked at.
CopyScriptUnchecked ==
    /\ spc = "copy"
    /\ \E outcome \in CommandOutcomes :
        /\ ssh_events' = Append(ssh_events,
                Command("scp", scripts_to_copy[copied + 1], outcome))
        /\ copied' = copied + 1
        /\ spc' = IF copied + 1 = Len(scripts_to_copy) THEN "env" ELSE "copy"
        /\ UNCHANGED setup_result
    /\ UNCHANGED << setup_args, attempt, summary_vars, create_vars, mapping_vars, validate_vars, main_vars,
                    filter_vars, classify_vars, wait_vars >>

\* start.py:815-831: one round of the copy loop.
CopyScript ==
    /\ spc = "copy"
    /\ \E outcome \in CommandOutcomes :
        /\ ssh_events' = Append(ssh_events,
                Command("scp", scripts_to_copy[copied + 1], outcome))
        /\ IF outcome = "ok"
           THEN /\ copied' = copied + 1
                /\ spc' = IF copied + 1 = Len(scripts_to_copy) THEN "env" ELSE "copy"
                /\ UNCHANGED setup_result
           ELSE /\ spc' = "raised"
                /\ setup_result' = SetupFailure("scp", outcome)
                /\ UNCHANGED copied
    /\ UNCHANGED << setup_args, attempt, summary_vars, create_vars, mapping_vars, validate_vars, main_vars,
                    filter_vars, classify_vars, wait_vars >>

\* start.py:833-847: the environment file is written on the instance.
WriteEnv ==
    /\ spc = "env"
    /\ \E outcome \in CommandOutcomes :
        /\ ssh_events' = Append(ssh_events, Command("write_env", "", outcome))
        /\ IF outcome = "ok"
           THEN spc' = "exec" /\ UNCHANGED setup_result
           ELSE spc' = "raised" /\ setup_result' = SetupFailure("write_env", outcome)
    /\ UNCHANGED << setup_args, attempt, copied, summary_vars, create_vars, mapping_vars, validate_vars, main_vars,
                    filter_vars, classify_vars, wait_vars >>

\* start.py:849-864: the setup script is started.
RunSetup ==
    /\ spc = "exec"
    /\ \E outcome \in CommandOutcomes :
        /\ ssh_events' = Append(ssh_events, Command("run_setup", "", outcome))
        /\ IF outcome = "ok"
           THEN spc' = "done" /\ setup_result' = [kind |-> "return"]
           ELSE spc' = "raised" /\ setup_result' = SetupFailure("run_setup", outcome)
    /\ UNCHANGED << setup_args, attempt, copied, summary_vars, create_vars, mapping_vars, validate_vars, main_vars,
                    filter_vars, classify_vars, wait_vars >>

SetupNext ==
    \/ PrepareKey
    \/ Connect
    \/ MakeScriptsDir
    \/ CopyScript
    \/ WriteEnv
    \/ RunSetup

SpecSetup == SetupInit /\ [][SetupNext]_vars

\* ------------------------------------------------------------------ C30
IsCommand(e) == e.op = "run"

\* The subprocess calls made so far, in order.
Commands == SelectSeq(ssh_events, IsCommand)

\* The place of a call in the prescribed order: connect, create the scripts
\* directory, copy script 1..5, push the environment, launch the setup.
RECURSIVE ScriptNumber(_, _)
ScriptNumber(name, k) ==
    IF scripts_to_copy[k] = name THEN k ELSE ScriptNumber(name, k + 1)

Rank(c) ==
    IF c.step = "connect" THEN 1
    ELSE IF c.step = "mkdir" THEN 2
    ELSE IF c.step = "scp" THEN 2 + ScriptNumber(c.target, 1)
    ELSE IF c.step = "write_env" THEN 3 + Len(scripts_to_copy)
    ELSE 4 + Len(scripts_to_copy)

\* C30: the calls are made in the order connect, mkdir, one scp per script
\* (in list order), write_env, run_setup; a call follows another step's call
\* only if that call succeeded (only a failed connection attempt is
\* repeated); a failed call of a later step is the last call and the function
\* has raised; the function returns only after all steps succeeded.
C30_SetupStepsInOrder ==
    /\ Commands /= <<>> => Commands[1].step = "connect"
    /\ \A n \in 1..(Len(Commands) - 1) :
        \/ /\ Commands[n].outcome = "ok"
           /\ Rank(Commands[n + 1]) = Rank(Commands[n]) + 1
        \/ /\ Commands[n].outcome /= "ok"
           /\ Commands[n].step = "connect"
           /\ Commands[n + 1].step = "connect"
           /\ Commands[n + 1].target = Commands[n].target + 1
    /\ \A n \in DOMAIN Commands :
        (Commands[n].outcome /= "ok" /\ Commands[n].step /= "connect") =>
            /\ n = Len(Commands)
            /\ spc = "raised"
            /\ setup_result.step = Commands[n].step
    /\ spc = "raised" =>
            /\ Commands[Len(Commands)].outcome /= "ok"
            /\ setup_result.kind = "raise"
    /\ spc = "done" =>
            /\ Len(Commands) >= 4 + Len(scripts_to_copy)
            /\ Commands[Len(Commands)].step = "run_setup"
            /\ Commands[Len(Commands)].outcome = "ok"

\* The connection succeeded at the second attempt and every later step ran
\* once, up to the launch of the setup.
C30_Witness ==
    /\ spc = "done"
    /\ Len(Commands) = 5 + Len(scripts_to_copy)
    /\ Commands[1].outcome = "timeout"
    /\ Commands[2].outcome = "ok"
    /\ Commands[3].step = "mkdir"
    /\ Commands[8].target = "shared-functions.sh"

\* ======================================================================
\* create_instances: claims C11, C12, C14, C15, C16
\* ======================================================================
\* ------------------------------------------------------------------ C11
\* The instance id the backend returned to launch call n (ids are handed out
\* in call order).
InstanceIdOf(n) == Cardinality({ x \in LaunchEvents : x <= n })

\* The token loop has finished the iteration of identity i.
TokenEnded(i) == ~ (idx = i /\ pc \in {"launch", "token_done"})

\* C11: a launch call that succeeds is the last launch call of its identity,
\* and once the identity's iteration has ended id_dict holds exactly one grant
\* for it, with the instance id and the (type, region) of that call.
C11_SuccessEndsSearchAndIsGranted ==
    \A n \in LaunchEvents :
        events[n].response.kind = "ok" =>
            /\ \A m \in LaunchEvents : m > n => events[m].idx /= events[n].idx
            /\ TokenEnded(events[n].idx) =>
                /\ \E g \in DOMAIN id_dict :
                    id_dict[g] = [instance_id |-> InstanceIdOf(n),
                                  idx |-> events[n].idx,
                                  runner_token |-> gh_runner_tokens[events[n].idx + 1],
                                  instance_type |-> events[n].instance_type,
                                  region |-> events[n].region]
                /\ Cardinality({ g \in DOMAIN id_dict :
                                    id_dict[g].idx = events[n].idx }) = 1

\* The first identity succeeded on its second option with a third one left,
\* its grant is recorded, and the second identity has launched since.
C11_Witness ==
    \E n, m \in LaunchEvents :
        /\ events[n].response.kind = "ok"
        /\ events[n].idx = 0
        /\ events[n].option_index = 2
        /\ Len(available_options) >= 3
        /\ events[m].idx = 1
        /\ \E g \in DOMAIN id_dict :
            /\ id_dict[g].instance_id = InstanceIdOf(n)
            /\ id_dict[g].instance_type = events[n].instance_type
            /\ id_dict[g].region = events[n].region

\* ------------------------------------------------------------------ C12
\* C12: with filtering disabled the candidate list has |R| * |G| entries and
\* entry (i-1)*|G| + j is (R[i], G[j]): type-major, the regions in the caller's
\* order within each type.
C12_UnfilteredListIsTypeMajorCrossProduct ==
    (~check_availability /\ pc /= "start") =>
        /\ Len(available_options) = Len(instance_types) * Len(regions)
        /\ \A i \in DOMAIN instance_types, j \in DOMAIN regions :
            available_options[(i - 1) * Len(regions) + j] =
                << instance_types[i], regions[j] >>

\* Two distinct types and two regions, unfiltered.
C12_Witness ==
    /\ ~check_availability
    /\ pc /= "start"
    /\ instance_types = <<"t1", "t2">>
    /\ regions = <<"r1", "r2">>
    /\ Len(available_options) = 4

\* ------------------------------------------------------------------ C14
\* C14: when the filter leaves nothing, create_instances makes no launch
\* call, records one "No capacity (pre-check)" entry per pair of the full
\* cross-product, renders the summary and raises AllCapacityExhaustedError
\* carrying those entries.
\* The availability query was answered and the filter kept no pair.
FilterLeftNothing ==
    /\ check_availability
    /\ pc /= "start"
    /\ available_options = <<>>
    /\ events[1] = [op |-> "get_availability"]

C14_EmptyFilterFailsFast ==
    FilterLeftNothing =>
        /\ NumLaunches = 0
        /\ Len(all_attempts) = Len(instance_types) * Len(regions)
        /\ \A i \in DOMAIN instance_types, j \in DOMAIN regions :
            all_attempts[(i - 1) * Len(regions) + j] =
                [instance_type |-> instance_types[i], region |-> regions[j],
                 attempt |-> 0, success |-> FALSE,
                 error |-> "No capacity (pre-check)", instance_id |-> 0]
        /\ \E n \in DOMAIN events :
            /\ events[n].op = "format_launch_summary"
            /\ events[n].attempts = all_attempts
            /\ ~events[n].success
        /\ result.kind = "raise"
        /\ result.exc = "AllCapacityExhaustedError"
        /\ result.attempts = all_attempts

\* ------------------------------------------------------------------ C15
AvailabilityQueries == { n \in DOMAIN events : events[n].op = "get_availability" }

\* C15: with filtering enabled the availability is queried exactly once, as
\* the first effect of the run (before any launch call); with filtering
\* disabled it is never queried.
C15_AvailabilityQueriedOnceOrNever ==
    /\ (check_availability /\ pc /= "start") =>
            /\ AvailabilityQueries = {1}
            /\ \A n \in LaunchEvents : n > 1
    /\ (~check_availability) => AvailabilityQueries = {}

\* Filtering enabled, and the second identity is already past its first option.
C15_Witness ==
    /\ check_availability
    /\ AvailabilityQueries = {1}
    /\ idx = 1
    /\ \E n \in LaunchEvents : events[n].idx = 1 /\ events[n].option_index = 2

\* ------------------------------------------------------------------ C16
\* Every launch call of the run is answered with an instance id.
BackendAlwaysSucceeds == backend.first.kind = "ok" /\ backend.rest.kind = "ok"

\* The pairs of the full cross-product the availability filter removed.
RemovedOptions ==
    { CrossProduct(instance_types, regions)[n] :
        n \in DOMAIN CrossProduct(instance_types, regions) }
    \ { available_options[n] : n \in DOMAIN available_options }

\* C16: with a non-empty filtered list and a backend that always succeeds,
\* the token loop ends with one grant and one LaunchAttempt per identity, every
\* attempt a success on the first filtered option, and no removed option in
\* the ledger.
C16_AlwaysSuccessGivesOneGrantPerIdentity ==
    ( /\ check_availability
      /\ available_options /= <<>>
      /\ BackendAlwaysSucceeds
      /\ pc \in {"report", "returned", "raised"} ) =>
        /\ Len(id_dict) = NumTokens
        /\ Len(all_attempts) = NumTokens
        /\ NumLaunches = NumTokens
        /\ \A k \in DOMAIN all_attempts :
            /\ all_attempts[k].success
            /\ << all_attempts[k].instance_type, all_attempts[k].region >> =
                    available_options[1]
            /\ << all_attempts[k].instance_type, all_attempts[k].region >>
                    \notin RemovedOptions

\* ------------------------------------------------------------------ C27
\* C27: when the run ends with AllCapacityExhaustedError (after the token
\* loop or in the pre-check) or with ConfigurationError, the summary of the
\* attempts made has been rendered before.
C27_FatalPathsRenderSummary ==
    (pc = "raised" /\ result.exc \in {"AllCapacityExhaustedError", "ConfigurationError"}) =>
        \E n \in DOMAIN events :
            /\ events[n].op = "format_launch_summary"
            /\ events[n].attempts = all_attempts

\* ------------------------------------------------------------------ C28
\* The summary sink of the run, if write_summary was called.
SinkUsed == { events[n].summary_file :
                n \in { m \in DOMAIN events : events[m].op = "write_summary" } }

\* C28: whatever the state of the summary sink, a run that reaches
\* write_summary ends as it does with a working sink: it returns id_dict when
\* an instance was launched and raises AllCapacityExhaustedError with the
\* ledger otherwise.
C28_SinkNeverChangesOutcome ==
    SinkUsed /= {} =>
        result = IF id_dict /= <<>> THEN Return(id_dict)
                 ELSE Raise("AllCapacityExhaustedError", all_attempts)

\* ==========================================================================
\* create_instances: claims C34, C35, C36, C37, C39
\* ==========================================================================

\* ------------------------------------------------------------------ C34
\* The launch calls made so far, in order.
Launches == LaunchSeq(Len(events))

\* The number of launch calls among the first k that are on the option and
\* for the identity of the k-th.
TryIndex(k) ==
    Cardinality({ j \in 1..k :
        /\ Launches[j].idx = Launches[k].idx
        /\ Launches[j].option_index = Launches[k].option_index })

\* The k-th ledger entry is the well-formed record of the k-th launch call.
WellFormedAttempt(k) ==
    LET a == all_attempts[k]
    IN  /\ a.success <=> (a.instance_id /= 0)
        /\ a.success <=> (a.error = "")
        /\ a.attempt >= 1
        /\ a.attempt = TryIndex(k)

IsPrefix(s, t) == Len(s) <= Len(t) /\ SubSeq(t, 1, Len(s)) = s

\* C34: every LaunchAttempt of a launch call is well formed in the ledger
\* (success exactly with an instance id and exactly with an empty error text,
\* try index 1-based and equal to the number of launch calls so far on that
\* option for that identity), and ledger entries are never changed.
C34_LedgerEntriesWellFormedAndFrozen ==
    /\ [](PreCheckPassed =>
            /\ Len(all_attempts) <= NumLaunches
            /\ \A k \in DOMAIN all_attempts : WellFormedAttempt(k))
    /\ [][IsPrefix(all_attempts, all_attempts')]_vars

\* ------------------------------------------------------------------ C35
\* The token loop's iteration for identity i has run to its end.
IterationEnded(i) ==
    \/ i < idx
    \/ i = idx /\ pc \in {"report", "returned"}
    \/ i = idx /\ AllTokensProcessed

HasGrant(i) == \E g \in DOMAIN id_dict : id_dict[g].idx = i

\* Every option of the candidate list got a launch call for identity i.
EveryOptionTried(i) ==
    \A p \in DOMAIN available_options : LaunchesOf(i, p) /= {}

\* C35: whatever the retry ceiling, an identity whose iteration ended without
\* a grant has had a launch call on every option of the candidate list, and
\* AllCapacityExhaustedError is raised only when that is so for every identity.
C35_NoGrantOnlyAfterEveryOptionTried ==
    /\ \A i \in 0..(NumTokens - 1) :
            (IterationEnded(i) /\ ~HasGrant(i)) => EveryOptionTried(i)
    /\ (pc = "raised" /\ result.exc = "AllCapacityExhaustedError") =>
            \A i \in 0..(NumTokens - 1) : EveryOptionTried(i)

\* ------------------------------------------------------------------ C36
\* The ledger entries of successful launch calls.
SuccessfulAttempts == { k \in DOMAIN all_attempts : all_attempts[k].success }

\* C36: when create_instances returns, the mapping has at least one entry and
\* at most one per identity, as many entries as the ledger has successful
\* attempts, and each entry has the type and region of the successful attempt
\* with its instance id.
C36_MappingMatchesSuccessfulAttempts ==
    pc = "returned" =>
        /\ result.kind = "return"
        /\ Len(result.value) >= 1
        /\ Len(result.value) <= NumTokens
        /\ \A g, h \in DOMAIN result.value :
                result.value[g].idx = result.value[h].idx => g = h
        /\ Len(result.value) = Cardinality(SuccessfulAttempts)
        /\ \A g \in DOMAIN result.value :
                \E k \in SuccessfulAttempts :
                    /\ all_attempts[k].instance_id = result.value[g].instance_id
                    /\ all_attempts[k].instance_type = result.value[g].instance_type
                    /\ all_attempts[k].region = result.value[g].region
                    /\ \A j \in SuccessfulAttempts :
                            all_attempts[j].instance_id = result.value[g].instance_id
                                => j = k

\* The run returned two grants on different options, the first identity's on
\* the second option after a failed attempt on the first.
C36_Witness ==
    /\ pc = "returned"
    /\ Len(result.value) = 2
    /\ result.value[1].instance_type = "t2"
    /\ result.value[2].instance_type = "t1"
    /\ Cardinality(SuccessfulAttempts) < Len(all_attempts)

\* ------------------------------------------------------------------ C37
\* The launch calls made so far for identity i.
LaunchesOfIdentity(i) == { n \in LaunchEvents : events[n].idx = i }

\* Launch call n is the first one of its identity.
IsFirstLaunchOfIdentity(n) ==
    \A m \in LaunchesOfIdentity(events[n].idx) : m >= n

\* C37: the first launch call of every identity is on the first option of the
\* candidate list; an option that failed with Capacity for identity i is
\* called again for identity i+1 before any later option; every launch call
\* is on the option the one candidate list holds at its position, and the
\* list does not change once the token loop has started.
C37_EveryIdentitySearchesFromTheHead ==
    /\ [](\A n \in LaunchEvents :
            /\ IsFirstLaunchOfIdentity(n) =>
                    events[n].option_index = 1 /\ events[n].attempt = 1
            /\ << events[n].instance_type, events[n].region >> =
                    available_options[events[n].option_index]
            /\ events[n].response.kind = "CapacityError" =>
                    \A m \in LaunchesOfIdentity(events[n].idx + 1) :
                        events[m].option_index > events[n].option_index =>
                            LaunchesOf(events[n].idx + 1,
                                       events[n].option_index) /= {})
    /\ [][pc /= "start" => available_options' = available_options]_vars

\* Option 1 failed with Capacity for the first identity and was called again
\* for the second.
C37_Witness ==
    \E n, m \in LaunchEvents :
        /\ events[n].idx = 0
        /\ events[n].option_index = 1
        /\ events[n].response.kind = "CapacityError"
        /\ events[m].idx = 1
        /\ events[m].option_index = 1
        /\ Len(available_options) >= 2

\* ------------------------------------------------------------------ C39
SleepEvents == { n \in DOMAIN events : events[n].op = "sleep" }

\* C39: create_instances terminates, by returning a mapping or by raising,
\* and with T identities, L candidate options and retry ceiling k it makes at
\* most T * L * k launch calls and at most T * L * (k - 1) sleeps.
C39_TerminatesWithinCallAndSleepBounds ==
    /\ <>Terminated
    /\ [](Terminated => result.kind \in {"return", "raise"})
    /\ [](NumLaunches <= NumTokens * Len(available_options) * retry_count)
    /\ [](Cardinality(SleepEvents) <=
            NumTokens * Len(available_options) * (retry_count - 1))

\* ==========================================================================
\* wait_until_ready: claim C38
\* ==========================================================================

\* The status requests for instance i that were answered "active".
ActivePolls(i) ==
    { n \in PollsOf(i) : /\ wait_events[n].response.kind = "status"
                         /\ wait_events[n].response.status = "active" }

\* C38: wait_until_ready returns only when every requested instance was seen
\* active, and then with one entry per requested id; an instance seen active
\* is not queried again and its entry in details is never overwritten; with an
\* empty id list no backend call is made and the result is empty.
C38_ReturnsOnlyWhenAllSeenActive ==
    /\ [](wpc = "returned" =>
            /\ wait_result.kind = "return"
            /\ SeenActive = IdSet(ids)
            /\ DOMAIN wait_result.value = IdSet(ids))
    /\ [](\A i \in IdSet(ids) :
            \A n \in ActivePolls(i) : \A m \in PollsOf(i) : m <= n)
    /\ [][\A i \in DOMAIN details :
            i \in DOMAIN details' /\ details'[i] = details[i]]_vars
    /\ [](ids = <<>> =>
            /\ wait_events = <<>>
            /\ wpc \in {"loop", "returned"}
            /\ wpc = "returned" => wait_result.value = <<>>)

\* Two instances were requested, the first became active a sweep before the
\* second, and the call has returned both.
C38_Witness ==
    /\ wpc = "returned"
    /\ IdSet(ids) = {1, 2}
    /\ DOMAIN wait_result.value = {1, 2}
    /\ \E n \in ActivePolls(1) : \E m \in ActivePolls(2) : SweepOf(n) < SweepOf(m)

\* ==========================================================================
\* set_instance_mapping (lambda_gha and ec2_gha): claim C32
\* ==========================================================================
MaxInstances == 3
MaxRunnersPerInstance == 2

LabelNames == {"a", "b"}

\* The orders in which up to MaxInstances distinct instance ids can be the
\* keys of the mapping (a dict keeps its insertion order).
InstanceIdLists ==
    UNION { Orderings(S) : S \in (SUBSET (1..MaxInstances)) \ {{}} }

\* An ec2_gha mapping value: one label, or the list of the instance's labels
\* (ec2_gha/start.py:493-498).
StrLabel(l) == [kind |-> "str", value |-> l]
ListLabel(ls) == [kind |-> "list", items |-> ls]

\* The labels of an instance's runners differ in their generated part
\* (ec2_gha/start.py:416-418), kept here as the runner's number.
AWSLabelValues(runners_per_instance) ==
    IF runners_per_instance > 1
    THEN { ListLabel([r \in 1..runners_per_instance |-> << l, r >>]) :
            l \in LabelNames }
    ELSE { StrLabel(l) : l \in LabelNames }

\* The mappings create_instances can return, as the sequence of the dict's
\* items: lambda_gha keeps the labels in the entry's meta, ec2_gha maps the id
\* to the label value.
LambdaMappings ==
    UNION { { [k \in DOMAIN il |-> [instance_id |-> il[k], labels |-> ls[k]]] :
                ls \in [DOMAIN il -> LabelNames] } : il \in InstanceIdLists }

AWSMappings(runners_per_instance) ==
    UNION { { [k \in DOMAIN il |-> [instance_id |-> il[k], labels |-> ls[k]]] :
                ls \in [DOMAIN il -> AWSLabelValues(runners_per_instance)] } :
            il \in InstanceIdLists }

MappingArgs ==
    { [backend |-> "lambda", runners_per_instance |-> 1, mapping |-> m] :
        m \in LambdaMappings }
    \cup UNION { { [backend |-> "ec2", runners_per_instance |-> n, mapping |-> m] :
                    m \in AWSMappings(n) } : n \in 1..MaxRunnersPerInstance }

\* workflow_cmds.output(name, value)
Output(name, value) == [name |-> name, value |-> value]

\* json.dumps(matrix_objects): the JSON array, kept as the sequence of its
\* objects in order.
JsonDumps(objects) == [json |-> objects]

\* lambda_gha/start.py:883-890
matrix_objects(mapping) ==
    [k \in DOMAIN mapping |->
        [idx |-> k - 1, id |-> mapping[k].labels,
         instance_id |-> mapping[k].instance_id]]

\* lambda_gha/start.py:872-897
set_instance_mapping(mapping) ==
    << Output("mtx", JsonDumps(matrix_objects(mapping))) >>
    \o (IF Len(mapping) = 1
        THEN << Output("instance-id", mapping[1].instance_id),
                Output("label", mapping[1].labels) >>
        ELSE <<>>)

\* ec2_gha/start.py:567-586: the labels of the runners of one instance.
RunnerLabels(labels) ==
    IF labels.kind = "list" THEN labels.items ELSE << labels.value >>

\* ec2_gha/start.py:562-586: the matrix objects of the instances from
\* position k on, the first of them numbered next_idx.
RECURSIVE AWSMatrixObjects(_, _, _)
AWSMatrixObjects(mapping, k, next_idx) ==
    IF k > Len(mapping) THEN <<>>
    ELSE LET labels == RunnerLabels(mapping[k].labels)
         IN  [r \in DOMAIN labels |->
                [idx |-> next_idx + r - 1, id |-> labels[r],
                 instance_id |-> mapping[k].instance_id,
                 instance_idx |-> k - 1, runner_idx |-> r - 1]]
             \o AWSMatrixObjects(mapping, k + 1, next_idx + Len(labels))

\* Variant of StartAWS_set_instance_mapping: the simplified outputs are
\* emitted for a single instance whatever its number of runners.
StartAWS_set_instance_mapping_AnyRunners(mapping, runners_per_instance) ==
    << Output("mtx", JsonDumps(AWSMatrixObjects(mapping, 1, 0))) >>
    \o (IF Len(mapping) = 1
        THEN << Output("instance-id", mapping[1].instance_id),
                Output("label", mapping[1].labels) >>
        ELSE <<>>)

\* ec2_gha/start.py:551-596
StartAWS_set_instance_mapping(mapping, runners_per_instance) ==
    << Output("mtx", JsonDumps(AWSMatrixObjects(mapping, 1, 0))) >>
    \o (IF Len(mapping) = 1 /\ runners_per_instance = 1
        THEN << Output("instance-id", mapping[1].instance_id),
                Output("label", mapping[1].labels) >>
        ELSE <<>>)

MappingInit ==
    /\ mapping_args \in MappingArgs
    /\ outputs = <<>>
    /\ CreateIdle
    /\ FilterIdle
    /\ ClassifyIdle
    /\ WaitIdle
    /\ SummaryIdle
    /\ SetupIdle
    /\ ValidateIdle
    /\ MainIdle

\* lambda_gha: starter.set_instance_mapping(mapping)
MappingCallLambda ==
    /\ mapping_args.backend = "lambda"
    /\ outputs = <<>>
    /\ outputs' = set_instance_mapping(mapping_args.mapping)
    /\ UNCHANGED << mapping_args, create_vars, filter_vars, classify_vars,
                    wait_vars, summary_vars, setup_vars, validate_vars,
                    main_vars >>

\* ec2_gha: the same call on StartAWS
MappingCallAWS ==
    /\ mapping_args.backend = "ec2"
    /\ outputs = <<>>
    /\ outputs' = StartAWS_set_instance_mapping(mapping_args.mapping,
                        mapping_args.runners_per_instance)
    /\ UNCHANGED << mapping_args, create_vars, filter_vars, classify_vars,
                    wait_vars, summary_vars, setup_vars, validate_vars,
                    main_vars >>

MappingNext ==
    \/ MappingCallLambda
    \/ MappingCallAWS

SpecMapping == MappingInit /\ [][MappingNext]_vars

\* ------------------------------------------------------------------ C32
\* The runners of the mapping: one per instance on lambda_gha, one per label
\* of each instance on ec2_gha.
RECURSIVE RunnersFrom(_)
RunnersFrom(k) ==
    IF k > Len(mapping_args.mapping) THEN 0
    ELSE (IF mapping_args.backend = "ec2"
          THEN Len(RunnerLabels(mapping_args.mapping[k].labels))
          ELSE 1) + RunnersFrom(k + 1)

NumRunners == RunnersFrom(1)

SingleInstance ==
    /\ Len(mapping_args.mapping) = 1
    /\ mapping_args.backend = "ec2" => mapping_args.runners_per_instance = 1

\* C32: set_instance_mapping emits "mtx" first and once, with one entry per
\* runner numbered from 0 in order; for a single instance (with one runner
\* per instance on ec2_gha) it also emits "instance-id" and "label", 3
\* outputs in all, and otherwise "mtx" is the only output.
C32_MatrixAlwaysSimplifiedOutputsForSingleInstance ==
    outputs /= <<>> =>
        /\ outputs[1].name = "mtx"
        /\ Len(outputs[1].value.json) = NumRunners
        /\ \A k \in DOMAIN outputs[1].value.json :
                outputs[1].value.json[k].idx = k - 1
        /\ IF SingleInstance
           THEN /\ Len(outputs) = 3
                /\ outputs[2] = Output("instance-id",
                                       mapping_args.mapping[1].instance_id)
                /\ outputs[3] = Output("label", mapping_args.mapping[1].labels)
           ELSE Len(outputs) = 1

\* An ec2_gha mapping of one instance with two runners has been output: two
\* matrix entries and nothing else.
C32_Witness ==
    /\ outputs /= <<>>
    /\ mapping_args.backend = "ec2"
    /\ Len(mapping_args.mapping) = 1
    /\ mapping_args.runners_per_instance = 2
    /\ Len(outputs[1].value.json) = 2
    /\ Len(outputs) = 1

\* ==========================================================================
\* create_instances, validation of the parameters (lambda_gha and ec2_gha):
\* claim C33
\* ==========================================================================
\* The parameters the validation reads, each empty or not, and what decides
\* the first calls made once it has passed.
\* What the two git commands of resolve_ref_to_sha do: both succeed,
\* `git config` exits non-zero, `git rev-parse` exits non-zero, or
\* `git rev-parse` prints nothing.
GitOutcomes == {"ok", "config_fails", "rev_parse_fails", "empty_output"}

LambdaValidateArgs ==
    [backend : {"lambda"},
     gh_runner_tokens : {<<>>, <<"tok">>},
     runner_release : {"", "rel"},
     instance_types : {<<>>, <<"t1">>},
     regions : {<<>>, <<"r1">>},
     ssh_key_names : {<<>>, <<"key">>},
     action_ref : {"", "main"},
     check_availability : BOOLEAN,
     retry_count : {0, 1},
     git : GitOutcomes]

AWSValidateArgs ==
    [backend : {"ec2"},
     gh_runner_tokens : {<<>>, <<"tok">>},
     runner_release : {"", "rel"},
     image_id : {"", "ami"},
     instance_type : {"", "t"},
     region_name : {"", "us"},
     action_ref : {"", "main"},
     root_device_size : {"0", "8"},
     dry_run : {"DryRunOperation", "UnauthorizedOperation"},
     user_data_oversize : BOOLEAN,
     git : GitOutcomes]

ValidateInit ==
    /\ validate_args \in LambdaValidateArgs \cup AWSValidateArgs
    /\ vpc = "start"
    /\ validate_events = <<>>
    /\ validate_result = <<>>
    /\ CreateIdle
    /\ FilterIdle
    /\ ClassifyIdle
    /\ WaitIdle
    /\ SummaryIdle
    /\ SetupIdle
    /\ MappingIdle
    /\ MainIdle

\* Variant of LambdaValidationError: the release is checked before the tokens.
LambdaValidationErrorReleaseFirst(a) ==
    IF a.runner_release = "" THEN "No runner release provided"
    ELSE IF a.gh_runner_tokens = <<>> THEN "No GitHub runner tokens provided"
    ELSE IF a.instance_types = <<>> THEN "No instance types provided"
    ELSE IF a.regions = <<>> THEN "No regions provided"
    ELSE IF a.ssh_key_names = <<>> THEN "No SSH key names provided"
    ELSE ""

\* lambda_gha/start.py:373-382: the message of the ValueError raised, "" when
\* every check passes.
LambdaValidationError(a) ==
    IF a.gh_runner_tokens = <<>> THEN "No GitHub runner tokens provided"
    ELSE IF a.runner_release = "" THEN "No runner release provided"
    ELSE IF a.instance_types = <<>> THEN "No instance types provided"
    ELSE IF a.regions = <<>> THEN "No regions provided"
    ELSE IF a.ssh_key_names = <<>> THEN "No SSH key names provided"
    ELSE ""

\* ec2_gha/start.py:387-396
AWSValidationError(a) ==
    IF a.gh_runner_tokens = <<>>
    THEN "No GitHub runner tokens provided, cannot create instances."
    ELSE IF a.runner_release = ""
    THEN "No runner release provided, cannot create instances."
    ELSE IF a.image_id = ""
    THEN "No image ID provided, cannot create instances."
    ELSE IF a.instance_type = ""
    THEN "No instance type provided, cannot create instances."
    ELSE IF a.region_name = ""
    THEN "No region name provided, cannot create instances."
    ELSE ""

ValueError(message) ==
    [kind |-> "raise", exc |-> "ValueError", message |-> message]

\* lambda_gha/start.py:33-60, ec2_gha/start.py:18-68: resolve_ref_to_sha of
\* the ref "main".  `git config` runs with check=True outside the try, so its
\* CalledProcessError leaves as it is; a failing `git rev-parse` (stderr
\* "fatal: bad revision") and an empty output become RuntimeError.
resolve_ref_to_sha(git) ==
    IF git = "config_fails"
    THEN [kind |-> "raise", exc |-> "CalledProcessError",
          message |-> "Command '['git', 'config', '--global', '--add', 'safe.directory', '/github/workspace']' returned non-zero exit status 1."]
    ELSE IF git = "rev_parse_fails"
    THEN [kind |-> "raise", exc |-> "RuntimeError",
          message |-> "Failed to resolve action_ref 'main' to SHA. Error: fatal: bad revision"]
    ELSE IF git = "empty_output"
    THEN [kind |-> "raise", exc |-> "RuntimeError",
          message |-> "git rev-parse returned empty output for ref 'main'"]
    ELSE [kind |-> "return", exc |-> "", message |-> ""]

\* lambda_gha/start.py:373-382
ValidateLambda ==
    /\ vpc = "start"
    /\ validate_args.backend = "lambda"
    /\ IF LambdaValidationError(validate_args) /= ""
       THEN /\ validate_result' = ValueError(LambdaValidationError(validate_args))
            /\ vpc' = "raised"
       ELSE /\ vpc' = "validated"
            /\ UNCHANGED validate_result
    /\ UNCHANGED << validate_args, validate_events, create_vars, filter_vars,
                    classify_vars, wait_vars, summary_vars, setup_vars,
                    mapping_vars, main_vars >>

\* ec2_gha/start.py:387-396
ValidateAWS ==
    /\ vpc = "start"
    /\ validate_args.backend = "ec2"
    /\ IF AWSValidationError(validate_args) /= ""
       THEN /\ validate_result' = ValueError(AWSValidationError(validate_args))
            /\ vpc' = "raised"
       ELSE /\ vpc' = "validated"
            /\ UNCHANGED validate_result
    /\ UNCHANGED << validate_args, validate_events, create_vars, filter_vars,
                    classify_vars, wait_vars, summary_vars, setup_vars,
                    mapping_vars, main_vars >>

\* lambda_gha/start.py:384-447: the action ref is resolved (a failure of
\* resolve_ref_to_sha leaves create_instances), then the first backend call
\* is the availability query or, without pre-check, the first launch call
\* (if the retry loop has an iteration).
ProceedLambda ==
    /\ vpc = "validated"
    /\ validate_args.backend = "lambda"
    /\ IF validate_args.action_ref = ""
       THEN /\ validate_result' = ValueError("action_ref is required")
            /\ vpc' = "raised"
            /\ UNCHANGED validate_events
       ELSE IF resolve_ref_to_sha(validate_args.git).kind = "raise"
       THEN /\ validate_events' = << [op |-> "resolve_ref_to_sha"] >>
            /\ validate_result' = resolve_ref_to_sha(validate_args.git)
            /\ vpc' = "raised"
       ELSE /\ validate_events' =
                    << [op |-> "resolve_ref_to_sha"] >>
                    \o (IF validate_args.check_availability
                        THEN << [op |-> "get_availability"] >>
                        ELSE IF validate_args.retry_count >= 1
                        THEN << [op |-> "launch"] >>
                        ELSE <<>>)
            /\ vpc' = "running"
            /\ UNCHANGED validate_result
    /\ UNCHANGED << validate_args, create_vars, filter_vars, classify_vars,
                    wait_vars, summary_vars, setup_vars, mapping_vars,
                    main_vars >>

\* ec2_gha/start.py:324-346: the dry-run describe_images, then the real one
\* when the dry run shows access.
ModifyRootDiskSizeEvents(a) ==
    IF a.root_device_size = "0" THEN <<>>
    ELSE << [op |-> "describe_images", dry_run |-> TRUE] >>
         \o (IF a.dry_run = "DryRunOperation"
             THEN << [op |-> "describe_images", dry_run |-> FALSE] >>
             ELSE <<>>)

\* ec2_gha/start.py:397-481: the client is made, and for the first instance
\* the action ref is resolved (a failure of resolve_ref_to_sha leaves
\* create_instances), the root disk size looked up, the user data
\* size checked and run_instances called.
ProceedAWS ==
    /\ vpc = "validated"
    /\ validate_args.backend = "ec2"
    /\ IF validate_args.action_ref = ""
       THEN /\ validate_events' = << [op |-> "boto3.client"] >>
            /\ validate_result' = ValueError(
                    "action_ref is required but was not provided. Check that runner.yml passes it correctly.")
            /\ vpc' = "raised"
       ELSE IF resolve_ref_to_sha(validate_args.git).kind = "raise"
       THEN /\ validate_events' =
                    << [op |-> "boto3.client"], [op |-> "resolve_ref_to_sha"] >>
            /\ validate_result' = resolve_ref_to_sha(validate_args.git)
            /\ vpc' = "raised"
       ELSE IF validate_args.root_device_size /= "0"
               /\ validate_args.dry_run /= "DryRunOperation"
       THEN /\ validate_events' =
                    << [op |-> "boto3.client"], [op |-> "resolve_ref_to_sha"] >>
                    \o ModifyRootDiskSizeEvents(validate_args)
            /\ validate_result' =
                    [kind |-> "raise", exc |-> "ClientError",
                     message |-> validate_args.dry_run]
            /\ vpc' = "raised"
       ELSE IF validate_args.user_data_oversize
       THEN /\ validate_events' =
                    << [op |-> "boto3.client"], [op |-> "resolve_ref_to_sha"] >>
                    \o ModifyRootDiskSizeEvents(validate_args)
            /\ validate_result' = ValueError("UserData exceeds AWS limit")
            /\ vpc' = "raised"
       ELSE /\ validate_events' =
                    << [op |-> "boto3.client"], [op |-> "resolve_ref_to_sha"] >>
                    \o ModifyRootDiskSizeEvents(validate_args)
                    \o << [op |-> "run_instances"] >>
            /\ vpc' = "running"
            /\ UNCHANGED validate_result
    /\ UNCHANGED << validate_args, create_vars, filter_vars, classify_vars,
                    wait_vars, summary_vars, setup_vars, mapping_vars,
                    main_vars >>

ValidateNext ==
    \/ ValidateLambda
    \/ ValidateAWS
    \/ ProceedLambda
    \/ ProceedAWS

SpecValidate == ValidateInit /\ [][ValidateNext]_vars

\* ------------------------------------------------------------------ C33
TokensMissing == validate_args.gh_runner_tokens = <<>>
ReleaseMissing == validate_args.runner_release = ""

\* The messages of the backend parameters that are empty.
MissingBackendParameters ==
    IF validate_args.backend = "lambda"
    THEN { m \in { "No instance types provided", "No regions provided",
                   "No SSH key names provided" } :
            \/ m = "No instance types provided"
                    /\ validate_args.instance_types = <<>>
            \/ m = "No regions provided" /\ validate_args.regions = <<>>
            \/ m = "No SSH key names provided"
                    /\ validate_args.ssh_key_names = <<>> }
    ELSE { m \in { "No image ID provided, cannot create instances.",
                   "No instance type provided, cannot create instances.",
                   "No region name provided, cannot create instances." } :
            \/ m = "No image ID provided, cannot create instances."
                    /\ validate_args.image_id = ""
            \/ m = "No instance type provided, cannot create instances."
                    /\ validate_args.instance_type = ""
            \/ m = "No region name provided, cannot create instances."
                    /\ validate_args.region_name = "" }

TokensMessage ==
    IF validate_args.backend = "lambda"
    THEN "No GitHub runner tokens provided"
    ELSE "No GitHub runner tokens provided, cannot create instances."

ReleaseMessage ==
    IF validate_args.backend = "lambda"
    THEN "No runner release provided"
    ELSE "No runner release provided, cannot create instances."

\* C33: on either backend, with the token list, the release or a backend
\* parameter (instance type, region, image, SSH key) empty, create_instances
\* raises ValueError without any call made, and the message names the
\* tokens first, then the release, then a missing backend parameter.
C33_MissingParameterRaisesBeforeAnyCall ==
    ( /\ vpc /= "start"
      /\ TokensMissing \/ ReleaseMissing \/ MissingBackendParameters /= {} ) =>
        /\ vpc = "raised"
        /\ validate_result.exc = "ValueError"
        /\ validate_events = <<>>
        /\ validate_result.message \in
                IF TokensMissing THEN { TokensMessage }
                ELSE IF ReleaseMissing THEN { ReleaseMessage }
                ELSE MissingBackendParameters

\* The lambda_gha call with tokens, release and regions all empty has raised,
\* naming the tokens.
C33_Witness ==
    /\ vpc = "raised"
    /\ validate_args.backend = "lambda"
    /\ TokensMissing
    /\ ReleaseMissing
    /\ validate_args.regions = <<>>
    /\ validate_result.message = "No GitHub runner tokens provided"
    /\ validate_events = <<>>

\* ==========================================================================
\* main (lambda_gha/__main__.py:129-166): claims C31, C40
\* ==========================================================================
\* What the calls of main come back with.  create_instances returns the
\* mapping of the instances 1..n or raises; wait_until_ready returns the
\* address of each instance ("" when the details have none) or raises;
\* execute_setup_via_ssh returns or raises at a step, for each instance.
MainCreateOutcomes ==
    { [kind |-> "return", n |-> n] : n \in 1..MaxInstances }
    \cup { [kind |-> "raise", exc |-> e, n |-> 0] :
            e \in {"AllCapacityExhaustedError", "ConfigurationError"} }

MainWaitOutcomes(n) ==
    { [kind |-> "return", ips |-> ips] : ips \in [1..n -> {"", "10.0.0.1"}] }
    \cup { [kind |-> "raise", exc |-> e, ips |-> <<>>] :
            e \in {"TimeoutError", "RuntimeError"} }

MainSetupOutcomes ==
    { [kind |-> "return", exc |-> "", step |-> ""] }
    \cup { [kind |-> "raise", exc |-> "RuntimeError", step |-> st] :
            st \in {"connect", "copy", "exec"} }

MainArgs ==
    UNION { [create : {c}, wait : MainWaitOutcomes(c.n),
             setup : [1..c.n -> MainSetupOutcomes]] : c \in MainCreateOutcomes }

MainInit ==
    /\ main_args \in MainArgs
    /\ mpc = "create"
    /\ main_i = 0
    /\ main_events = <<>>
    /\ main_result = <<>>
    /\ CreateIdle
    /\ FilterIdle
    /\ ClassifyIdle
    /\ WaitIdle
    /\ SummaryIdle
    /\ SetupIdle
    /\ MappingIdle
    /\ ValidateIdle

\* The mapping's keys, in order, and the label of an instance's runner.
MainInstanceIds == [k \in 1..main_args.create.n |-> k]
MainLabel(k) == << "label", k >>

MainRaise(exc) == [kind |-> "raise", exc |-> exc]

\* __main__.py:130: mapping = starter.create_instances()
MainCreate ==
    /\ mpc = "create"
    /\ main_events' = Append(main_events, [op |-> "create_instances"])
    /\ IF main_args.create.kind = "raise"
       THEN /\ main_result' = MainRaise(main_args.create.exc)
            /\ mpc' = "raised"
       ELSE /\ mpc' = "wait"
            /\ UNCHANGED main_result
    /\ UNCHANGED << main_args, main_i, create_vars, filter_vars, classify_vars,
                    wait_vars, summary_vars, setup_vars, mapping_vars,
                    validate_vars >>

\* __main__.py:131-135: details = starter.wait_until_ready(instance_ids)
MainWait ==
    /\ mpc = "wait"
    /\ main_events' = Append(main_events,
            [op |-> "wait_until_ready", ids |-> MainInstanceIds,
             outcome |-> main_args.wait.kind])
    /\ IF main_args.wait.kind = "raise"
       THEN /\ main_result' = MainRaise(main_args.wait.exc)
            /\ mpc' = "raised"
            /\ UNCHANGED main_i
       ELSE /\ mpc' = "setup"
            /\ main_i' = 1
            /\ UNCHANGED main_result
    /\ UNCHANGED << main_args, create_vars, filter_vars, classify_vars,
                    wait_vars, summary_vars, setup_vars, mapping_vars,
                    validate_vars >>

\* The setup call of __main__.py:151-156 for the instance the loop is at.
MainSetupEvent ==
    [op |-> "execute_setup_via_ssh", instance_id |-> MainInstanceIds[main_i],
     ip |-> main_args.wait.ips[main_i],
     outcome |-> main_args.setup[main_i].kind]

\* The loop of __main__.py:138 steps on, or ends.
MainSetupStepsOn ==
    IF main_i < main_args.create.n
    THEN /\ main_i' = main_i + 1
         /\ mpc' = "setup"
    ELSE /\ main_i' = main_i
         /\ mpc' = "mapping"

\* Variant of MainSetup: the setup is dispatched without the address check.
MainSetupWithoutAddressCheck ==
    /\ mpc = "setup"
    /\ main_events' = Append(main_events, MainSetupEvent)
    /\ IF main_args.setup[main_i].kind = "raise"
       THEN /\ main_result' = MainRaise(main_args.setup[main_i].exc)
            /\ mpc' = "raised"
            /\ UNCHANGED main_i
       ELSE /\ MainSetupStepsOn
            /\ UNCHANGED main_result
    /\ UNCHANGED << main_args, create_vars, filter_vars, classify_vars,
                    wait_vars, summary_vars, setup_vars, mapping_vars,
                    validate_vars >>

\* __main__.py:138-156: one iteration of the setup loop; an instance without
\* address, or a setup that raises, ends main.
MainSetup ==
    /\ mpc = "setup"
    /\ IF main_args.wait.ips[main_i] = ""
       THEN /\ main_result' = MainRaise("RuntimeError")
            /\ mpc' = "raised"
            /\ UNCHANGED << main_i, main_events >>
       ELSE /\ main_events' = Append(main_events, MainSetupEvent)
            /\ IF main_args.setup[main_i].kind = "raise"
               THEN /\ main_result' = MainRaise(main_args.setup[main_i].exc)
                    /\ mpc' = "raised"
                    /\ UNCHANGED main_i
               ELSE /\ MainSetupStepsOn
                    /\ UNCHANGED main_result
    /\ UNCHANGED << main_args, create_vars, filter_vars, classify_vars,
                    wait_vars, summary_vars, setup_vars, mapping_vars,
                    validate_vars >>

\* __main__.py:159: starter.set_instance_mapping(mapping)
MainSetMapping ==
    /\ mpc = "mapping"
    /\ main_events' = Append(main_events,
            [op |-> "set_instance_mapping", ids |-> MainInstanceIds])
    /\ mpc' = "register"
    /\ main_i' = 1
    /\ UNCHANGED << main_args, main_result, create_vars, filter_vars,
                    classify_vars, wait_vars, summary_vars, setup_vars,
                    mapping_vars, validate_vars >>

\* __main__.py:162-166: gh.wait_for_runner for the next label.
MainWaitForRunner ==
    /\ mpc = "register"
    /\ main_events' = Append(main_events,
            [op |-> "wait_for_runner", label |-> MainLabel(main_i)])
    /\ IF main_i < main_args.create.n
       THEN /\ main_i' = main_i + 1
            /\ mpc' = "register"
            /\ UNCHANGED main_result
       ELSE /\ main_i' = main_i
            /\ mpc' = "done"
            /\ main_result' = [kind |-> "return", exc |-> ""]
    /\ UNCHANGED << main_args, create_vars, filter_vars, classify_vars,
                    wait_vars, summary_vars, setup_vars, mapping_vars,
                    validate_vars >>

MainNext ==
    \/ MainCreate
    \/ MainWait
    \/ MainSetup
    \/ MainSetMapping
    \/ MainWaitForRunner

SpecMain == MainInit /\ [][MainNext]_vars

\* The positions in main_events of the calls of an operation.
MainCalls(op) == { n \in DOMAIN main_events : main_events[n].op = op }

\* The setup calls made for instance k.
SetupCallsOf(k) ==
    { n \in MainCalls("execute_setup_via_ssh") : main_events[n].instance_id = k }

MainEnded == mpc \in {"raised", "done"}

\* ------------------------------------------------------------------ C31
\* The instances wait_until_ready returned an address for.
ReadyInstances ==
    IF main_args.wait.kind = "return"
    THEN { k \in 1..main_args.create.n : main_args.wait.ips[k] /= "" }
    ELSE {}

\* C31: a setup that fails leads to no terminate call, for its own instance
\* or any other, and does not keep the other ready instances from being set
\* up: when main has ended, every ready instance has had its setup call.
C31_SetupFailureIsPerInstance ==
    (\E n \in MainCalls("execute_setup_via_ssh") :
            main_events[n].outcome = "raise") =>
        /\ MainCalls("terminate_instances") = {}
        /\ MainEnded => \A k \in ReadyInstances : SetupCallsOf(k) /= {}

\* ------------------------------------------------------------------ C40
\* C40: every setup call comes after wait_until_ready has returned for all
\* the instances of the mapping and goes to an instance with the address
\* wait_until_ready gave; set_instance_mapping is called only after a setup
\* call has succeeded for every instance; every wait_for_runner call comes
\* after set_instance_mapping.
C40_MainFlowOrder ==
    /\ \A n \in MainCalls("execute_setup_via_ssh") :
            /\ \E w \in MainCalls("wait_until_ready") :
                    /\ w < n
                    /\ main_events[w].outcome = "return"
                    /\ main_events[w].ids = MainInstanceIds
            /\ main_events[n].ip /= ""
            /\ main_events[n].ip = main_args.wait.ips[main_events[n].instance_id]
    /\ \A m \in MainCalls("set_instance_mapping") :
            \A k \in 1..main_args.create.n :
                \E n \in SetupCallsOf(k) :
                    n < m /\ main_events[n].outcome = "return"
    /\ \A r \in MainCalls("wait_for_runner") :
            \E m \in MainCalls("set_instance_mapping") : m < r

\* Two instances were waited for and set up, the mapping was output, and the
\* wait for the first runner has begun.
C40_Witness ==
    /\ main_args.create.n = 2
    /\ Cardinality(MainCalls("execute_setup_via_ssh")) = 2
    /\ MainCalls("set_instance_mapping") /= {}
    /\ MainCalls("wait_for_runner") /= {}

====
